---- MODULE Spec2Model ----
(***************************************************************************)
(* The push-based streaming engine of tinyflow (src/tinyflow/coro.py):     *)
(* CoroPipeline, its stages (Map, FlatMap, Filter, FilterFalse, Sort,      *)
(* ReduceByKey, Sample) and the collect sink, as a state machine.          *)
(*                                                                         *)
(* A generator is a record with an `alive` flag (suspended at a yield) and *)
(* the locals of its frame.  send() and close() are synchronous, so one    *)
(* send of the orchestrator and the whole cascade it causes is one step.   *)
(***************************************************************************)
EXTENDS Integers, Sequences, FiniteSets

\* ------------------------------------------------------------------ bounds
MaxLen == 3        \* longest input stream
MaxStages == 2     \* longest chain of transforms
MaxCalls == 2      \* calls of one pipeline object
MaxOps == 2        \* longest tuple of operations of a pull pipeline

\* ------------------------------------------------------------------- items
\* A Python value pushed through the pipeline: None, an int, or a
\* (key, value) tuple of ints.  One record shape for all three.
None == [tag |-> "none", k |-> 0, v |-> 0]
Num(n) == [tag |-> "int", k |-> 0, v |-> n]
Pair(key, value) == [tag |-> "pair", k |-> key, v |-> value]

IntItems == {None, Num(0), Num(1)}
PairItems == {Pair(0, 1), Pair(0, 2), Pair(1, 1)}

SeqsUpTo(S, n) == UNION {[1..m -> S] : m \in 0..n}

\* The data a caller passes to the pipeline: a finite list of ints and None,
\* or a finite list of (key, value) pairs.
Streams == SeqsUpTo(IntItems, MaxLen) \cup SeqsUpTo(PairItems, MaxLen)

\* -------------------------------------------------- user supplied functions
\* What a call of a user function gives: a value, or an exception.
Ok(x) == [exc |-> "none", val |-> x]
Raises(e) == [exc |-> e, val |-> None]

\* bool(x), the default predicate of Filter
Truthy(x) == IF x.tag = "none" THEN FALSE
             ELSE IF x.tag = "int" THEN x.v # 0
             ELSE TRUE

\* Map functions.  "double": lambda x: x << 1, a doubling of numbers that
\* raises TypeError on None and on tuples;
\* "keyed": lambda x: (x % 2, x), the docstring's odd/even partitioning.
MapFuncs == {"double", "keyed"}
CallFunc(f, x) ==
    IF x.tag # "int" THEN Raises("TypeError")
    ELSE IF f = "double" THEN Ok(Num(2 * x.v))
    ELSE Ok(Pair(x.v % 2, x.v))

\* FlatMap function "rep": lambda x: [x] * (2 * x)
FlatMapFuncs == {"rep"}
Repeat(x, n) == [j \in 1..n |-> x]
CallFlat(f, x) ==
    IF x.tag # "int" THEN [exc |-> "TypeError", val |-> <<>>]
    ELSE [exc |-> "none", val |-> Repeat(x, 2 * x.v)]

\* Predicates of Filter / FilterFalse: bool
Preds == {"bool"}
CallPred(f, x) == Truthy(x)

\* The reducer given to the pull reduce_by_key: lambda a, b: 2 * a + b
CallReduce(f, a, b) == 2 * a + b

\* Reducers of ReduceByKey: "horner" is lambda key, a, b: 2 * a + b + key
\* (neither commutative nor associative, and it reads the key); "flat" is
\* lambda key, a, b: f(a, b) for the reducer f of the pull variant.
Reducers == {"horner", "flat"}
CallReducer(f, key, a, b) ==
    IF f = "flat" THEN CallReduce("horner", a, b) ELSE 2 * a + b + key

\* Sort keys: "none" is sorted()'s default (compare the items themselves);
\* "parity" is key=lambda x: x[0] if tuple else x % 2 (TypeError on None).
\* The keyword arguments Sort is constructed with: none, or key and reverse.
SortKwargs == {[key |-> "none", reverse |-> FALSE],
               [key |-> "parity", reverse |-> TRUE]}
KeyOf(f, x) == IF x.tag = "pair" THEN x.k ELSE x.v % 2

\* Whether sorted(out, key=..., reverse=...) raises TypeError: a key function
\* applied to None, or two items compared that do not order (None with
\* anything, an int with a tuple).  With two or more items every item takes
\* part in a comparison.
SortRaises(out, key) ==
    IF key = "parity" THEN \E j \in 1..Len(out) : out[j].tag = "none"
    ELSE /\ Len(out) >= 2
         /\ \/ \E j \in 1..Len(out) : out[j].tag = "none"
            \/ \E i, j \in 1..Len(out) : out[i].tag # out[j].tag

\* x < y as sorted() compares them: the keys if a key function is given,
\* else ints by value and tuples lexicographically.
Less(key, x, y) ==
    IF key = "parity" THEN KeyOf(key, x) < KeyOf(key, y)
    ELSE IF x.tag = "pair" THEN x.k < y.k \/ (x.k = y.k /\ x.v < y.v)
    ELSE x.v < y.v

\* Before with reverse ignored.
BeforeAscending(key, reverse, x, y) == Less(key, x, y)

\* sorted() is stable, also with reverse=True: equal items keep their order.
Before(key, reverse, x, y) == IF reverse THEN Less(key, y, x) ELSE Less(key, x, y)

InsertSorted(s, x, key, reverse) ==
    LET firstAfter == {j \in 1..Len(s) : Before(key, reverse, x, s[j])}
        at == IF firstAfter = {} THEN Len(s) + 1
              ELSE CHOOSE j \in firstAfter : \A m \in firstAfter : j <= m
    IN  SubSeq(s, 1, at - 1) \o <<x>> \o SubSeq(s, at, Len(s))

RECURSIVE Sorted(_, _, _)
Sorted(out, key, reverse) ==
    IF out = <<>> THEN <<>>
    ELSE InsertSorted(Sorted(SubSeq(out, 1, Len(out) - 1), key, reverse),
                      out[Len(out)], key, reverse)

\* ------------------------------------------------------ stage descriptors
\* A CoroTransform instance: its class and the arguments __init__ stored.
Stage(kind, func, reverse, start, stop, step) ==
    [kind |-> kind, func |-> func, reverse |-> reverse,
     start |-> start, stop |-> stop, step |-> step]

MapStage(f) == Stage("Map", f, FALSE, 0, 0, 0)
FlatMapStage(f) == Stage("FlatMap", f, FALSE, 0, 0, 0)
FilterStage(f) == Stage("Filter", f, FALSE, 0, 0, 0)
FilterFalseStage(f) == Stage("FilterFalse", f, FALSE, 0, 0, 0)
SortStage(key, reverse) == Stage("Sort", key, reverse, 0, 0, 0)
ReduceByKeyStage(f) == Stage("ReduceByKey", f, FALSE, 0, 0, 0)

\* Sample.__init__(*args): range()-style overloads of 1, 2 or 3 arguments.
SampleStage(args) ==
    IF Len(args) = 1 THEN Stage("Sample", "", FALSE, 0, args[1], 1)
    ELSE IF Len(args) = 2 THEN Stage("Sample", "", FALSE, args[1], args[2], 1)
    ELSE Stage("Sample", "", FALSE, args[1], args[2], args[3])

\* Sample.__init__ with two arguments read as (stop, step).
SampleInitStopStep(args) ==
    IF Len(args) = 1 THEN Ok(Stage("Sample", "", FALSE, 0, args[1], 1))
    ELSE IF Len(args) = 2 THEN Ok(Stage("Sample", "", FALSE, 0, args[1], args[2]))
    ELSE IF Len(args) = 3 THEN Ok(SampleStage(args))
    ELSE Raises("TypeError")

\* Sample(*args): the instance, or the TypeError of any other number of
\* arguments.
SampleInit(args) ==
    IF Len(args) \in {1, 2, 3} THEN Ok(SampleStage(args))
    ELSE Raises("TypeError")

\* The argument lists Sample is constructed with.  range() refuses a step
\* of 0, but only when the stage is called.
SampleArgs == {<<2>>, <<1, 5>>, <<1, 5, 2>>, <<0, 5, 0>>}
SampleArgLists == SampleArgs \cup {<<>>, <<1, 5, 2, 1>>}

\* CoroTransform(): the base class can be instantiated, abc.abstractmethod
\* having no effect without ABCMeta.
BareStage == Stage("CoroTransform", "", FALSE, 0, 0, 0)

Stages ==
    {MapStage(f) : f \in MapFuncs} \cup {FlatMapStage(f) : f \in FlatMapFuncs}
    \cup {FilterStage(f) : f \in Preds} \cup {FilterFalseStage(f) : f \in Preds}
    \cup {SortStage(kw.key, kw.reverse) : kw \in SortKwargs}
    \cup {ReduceByKeyStage(f) : f \in Reducers}
    \cup {BareStage}

\* An object that is no CoroTransform (a plain function, say).
NotAStage == Stage("object", "", FALSE, 0, 0, 0)

IsCoroTransform(other) == other.kind # "object"

\* trans(target): what calling the stage raises before a receiver comes out
\* of it.  CoroTransform.__call__ raises NotImplementedError; Sample's body
\* runs range(start, stop, step) when the generator is primed.
TransRaises(stage) ==
    IF stage.kind = "CoroTransform" THEN "NotImplementedError"
    ELSE IF stage.kind = "Sample" /\ stage.step = 0 THEN "ValueError"
    ELSE "none"

\* ---------------------------------------------------------------- receivers
\* A primed generator made by trans(target): suspended at its first yield,
\* with the locals of its frame.
\*   target  the receiver it sends to: an index of recv, TheSink for the sink
\*   call    the call of the pipeline that built it
\*   seen    what it was sent            closes  who called close() on it
\*   strays  sends after a close()      out     Sort's buffer
\*   keymap  ReduceByKey's dict, in insertion order
\*   shut    keys of the accumulators ReduceByKey closed, in that order
\*   last    index in keymap of the accumulator the local tgt names, or 0
\*   idx, drawn   Sample's index and how many matches it has drawn
\*   primed  whether it has been advanced to its first yield
\* The sink as a target.
TheSink == 0

NewGenerator(stage, target, call) ==
    [stage |-> stage, target |-> target, call |-> call, alive |-> TRUE,
     primed |-> FALSE, seen |-> <<>>, closes |-> <<>>,
     strays |-> 0, out |-> <<>>, keymap |-> <<>>, shut |-> <<>>, last |-> 0,
     idx |-> 0, drawn |-> 0]

\* A decorator that leaves the generator as func returned it.
unprimed(c) == c

\* prime_coroutine: c = func(*args, **kwargs); c.send(None); return c
coroutine(c) == [c EXCEPT !.primed = TRUE]

NewReceiver(stage, target, call) == coroutine(NewGenerator(stage, target, call))

\* The place in recv of a stage whose receiver was not made.
NotBuilt(stage, call) ==
    [NewGenerator(stage, TheSink, call) EXCEPT !.alive = FALSE]

\* The generator ReduceByKey.wrap returns, primed: suspended at `a = yield`.
NewAccumulator(key) ==
    coroutine([key |-> key, a |-> 0, fed |-> 0, alive |-> TRUE, primed |-> FALSE])

\* collect(queue), primed.
NewSink ==
    coroutine([alive |-> TRUE, primed |-> FALSE, queue |-> <<>>,
               closes |-> <<>>, strays |-> 0])

\* Who calls close(): the orchestrator ("execute"), a stage's handler (the
\* stage's class) or a finalizer ("gc"), of which call of the pipeline.
By(kind, call) == [kind |-> kind, call |-> call]

\* An exception leaving a generator's frame ends the generator; a
\* StopIteration that leaves it is turned into RuntimeError (PEP 479).
Raise(w, i, e) ==
    [w EXCEPT !.recv[i].alive = FALSE,
              !.exc = IF e = "StopIteration" THEN "RuntimeError" ELSE e]

RECURSIVE SendTo(_, _, _), SendAll(_, _, _), CloseRecv(_, _, _)

\* What a call made inside receiver i gave: an exception propagates through
\* receiver i's frame.
Propagate(r, i) == IF r.exc = "none" THEN r ELSE Raise(r, i, r.exc)

\* target.send(x) from inside receiver i
Forward(w, i, x) == Propagate(SendTo(w, w.recv[i].target, x), i)

\* MapSend with an item on which the function raises skipped.
MapSendSkipping(w, i, x) ==
    LET y == CallFunc(w.recv[i].stage.func, x)
    IN  IF y.exc # "none" THEN w ELSE Forward(w, i, y.val)

\* Map: target.send(self.func(data))
MapSend(w, i, x) ==
    LET y == CallFunc(w.recv[i].stage.func, x)
    IN  IF y.exc # "none" THEN Raise(w, i, y.exc) ELSE Forward(w, i, y.val)

\* FlatMap: for item in self.func(data): target.send(item)
FlatMapSend(w, i, x) ==
    LET ys == CallFlat(w.recv[i].stage.func, x)
    IN  IF ys.exc # "none" THEN Raise(w, i, ys.exc)
        ELSE Propagate(SendAll(w, w.recv[i].target, ys.val), i)

\* Filter: if self.func(data): target.send(data)
FilterSend(w, i, x) ==
    IF CallPred(w.recv[i].stage.func, x) THEN Forward(w, i, x) ELSE w

\* FilterFalseSend without the `not`.
FilterFalseSendKeeps(w, i, x) ==
    IF CallPred(w.recv[i].stage.func, x) THEN Forward(w, i, x) ELSE w

\* FilterFalse: if not self.func(data): target.send(data)
FilterFalseSend(w, i, x) ==
    IF ~CallPred(w.recv[i].stage.func, x) THEN Forward(w, i, x) ELSE w

\* Sort: out.append(data)
SortSend(w, i, x) == [w EXCEPT !.recv[i].out = Append(@, x)]

\* Sample: idx += 1, unless the send raised
SampleCount(r, i) ==
    IF r.exc # "none" THEN r ELSE [r EXCEPT !.recv[i].idx = @ + 1]

\* Sample: if next(matches) == idx: target.send(data)
\* next(matches) over iter(range(start, stop, step)) is drawn for every item.
SampleSend(w, i, x) ==
    LET r == w.recv[i]
        match == r.stage.start + r.drawn * r.stage.step
    IN  IF match >= r.stage.stop THEN Raise(w, i, "StopIteration")
        ELSE SampleCount(IF match = r.idx
                         THEN Forward([w EXCEPT !.recv[i].drawn = @ + 1], i, x)
                         ELSE [w EXCEPT !.recv[i].drawn = @ + 1], i)

\* WrapSend with the reducer's two values swapped.
WrapSendSwapped(acc, func, value) ==
    IF acc.fed = 0 THEN [acc EXCEPT !.a = value, !.fed = 1]
    ELSE [acc EXCEPT !.a = CallReducer(func, acc.key, value, acc.a),
                     !.fed = @ + 1]

\* tgt.send(value) on an accumulator: the first value is kept as it is, a
\* later one is folded in.
WrapSend(acc, func, value) ==
    IF acc.fed = 0 THEN [acc EXCEPT !.a = value, !.fed = 1]
    ELSE [acc EXCEPT !.a = CallReducer(func, acc.key, acc.a, value),
                     !.fed = @ + 1]

\* keymap.get(key): the index of the key's accumulator, or 0
KeymapIndex(keymap, key) ==
    IF \E j \in 1..Len(keymap) : keymap[j].key = key
    THEN CHOOSE j \in 1..Len(keymap) : keymap[j].key = key
    ELSE 0

\* A dispatcher that passes each pair on as it comes.
ReduceByKeySendEager(w, i, x) ==
    IF x.tag # "pair" THEN Raise(w, i, "TypeError") ELSE Forward(w, i, x)

\* ReduceByKey: key, value = yield; look the accumulator up or make it;
\* tgt.send(value)
ReduceByKeySend(w, i, x) ==
    IF x.tag # "pair" THEN Raise(w, i, "TypeError")
    ELSE LET r == w.recv[i]
             found == KeymapIndex(r.keymap, x.k)
             keymap == IF found = 0 THEN Append(r.keymap, NewAccumulator(x.k))
                       ELSE r.keymap
             at == IF found = 0 THEN Len(keymap) ELSE found
         IN  IF ~keymap[at].primed
             THEN Raise([w EXCEPT !.recv[i].keymap = keymap, !.recv[i].last = at],
                        i, "TypeError")
             ELSE [w EXCEPT !.recv[i].keymap =
                              [keymap EXCEPT ![at] = WrapSend(@, r.stage.func, x.v)],
                           !.recv[i].last = at]

\* collect(): queue.append(item); a send to a finished generator raises
\* StopIteration.
SinkSend(w, x) ==
    IF w.sink.alive /\ ~w.sink.primed
    THEN IF x = None THEN [w EXCEPT !.sink.primed = TRUE]
         ELSE [w EXCEPT !.exc = "TypeError"]
    ELSE IF w.sink.alive THEN [w EXCEPT !.sink.queue = Append(@, x)]
    ELSE [w EXCEPT !.sink.strays = @ + (IF w.sink.closes = <<>> THEN 0 ELSE 1),
                   !.exc = "StopIteration"]

\* The body of receiver i resumed with x.
Resume(w, i, x) ==
    LET kind == w.recv[i].stage.kind
    IN  CASE kind = "Map" -> MapSend(w, i, x)
          [] kind = "FlatMap" -> FlatMapSend(w, i, x)
          [] kind = "Filter" -> FilterSend(w, i, x)
          [] kind = "FilterFalse" -> FilterFalseSend(w, i, x)
          [] kind = "Sort" -> SortSend(w, i, x)
          [] kind = "Sample" -> SampleSend(w, i, x)
          [] kind = "ReduceByKey" -> ReduceByKeySend(w, i, x)

\* receiver.send(x), with everything it causes downstream.  A generator that
\* has not started takes None as its priming and refuses anything else.
SendTo(w, i, x) ==
    IF i = TheSink THEN SinkSend(w, x)
    ELSE IF ~w.recv[i].alive
         THEN [w EXCEPT !.recv[i].strays =
                            @ + (IF w.recv[i].closes = <<>> THEN 0 ELSE 1),
                        !.exc = "StopIteration"]
    ELSE IF ~w.recv[i].primed
         THEN IF x = None THEN [w EXCEPT !.recv[i].primed = TRUE]
              ELSE [w EXCEPT !.exc = "TypeError"]
    ELSE Resume([w EXCEPT !.recv[i].seen = Append(@, x)], i, x)

\* The rest of a loop of sends, after one of them.
SendRest(r, i, xs) == IF r.exc # "none" THEN r ELSE SendAll(r, i, xs)

\* for item in xs: receiver.send(item)
SendAll(w, i, xs) ==
    IF xs = <<>> THEN w ELSE SendRest(SendTo(w, i, Head(xs)), i, Tail(xs))

\* ------------------------------------------------------------------- close
\* close() throws GeneratorExit into the generator at its yield.  Map,
\* FlatMap, Filter, FilterFalse and Sample do not catch it: the generator
\* ends and its target is not told.
PlainClose(w, i) == [w EXCEPT !.recv[i].alive = FALSE]

\* The handler of receiver i returns after its last statement.
Finish(r, i) ==
    IF r.exc # "none" THEN Raise(r, i, r.exc)
    ELSE [r EXCEPT !.recv[i].alive = FALSE]

\* CloseTarget with the close issued twice.
CloseTargetTwice(r, i) ==
    IF r.exc # "none" THEN Raise(r, i, r.exc)
    ELSE Finish(CloseRecv(CloseRecv(r, r.recv[i].target,
                                    By(r.recv[i].stage.kind, r.recv[i].call)),
                          r.recv[i].target,
                          By(r.recv[i].stage.kind, r.recv[i].call)), i)

\* Sort, ReduceByKey: target.close(), the handler's last statement
CloseTarget(r, i) ==
    IF r.exc # "none" THEN Raise(r, i, r.exc)
    ELSE Finish(CloseRecv(r, r.recv[i].target,
                          By(r.recv[i].stage.kind, r.recv[i].call)), i)

\* Sort's handler: for item in sorted(out, **self.kwargs): target.send(item)
\* and then target.close()
SortClose(w, i) ==
    LET r == w.recv[i]
    IN  IF SortRaises(r.out, r.stage.func) THEN Raise(w, i, "TypeError")
        ELSE CloseTarget(SendAll(w, r.target,
                                 Sorted(r.out, r.stage.func, r.stage.reverse)), i)

\* WrapClose with the accumulator closing the target after its send.
WrapCloseAndTarget(w, i, acc) ==
    IF ~acc.alive \/ acc.fed = 0 THEN w
    ELSE CloseRecv(SendTo(w, w.recv[i].target, Pair(acc.key, acc.a)),
                   w.recv[i].target, By("wrap", w.recv[i].call))

\* close() on an accumulator of receiver i: one before its first value is
\* outside the try and just ends; otherwise the handler sends (key, a) to the
\* target of the ReduceByKey stage, which it does not close.
WrapClose(w, i, acc) ==
    IF ~acc.alive \/ acc.fed = 0 THEN w
    ELSE SendTo(w, w.recv[i].target, Pair(acc.key, acc.a))

\* dict.popitem() gives the entry inserted last.
PopItem(keymap) == Len(keymap)

RECURSIVE ShutAccumulators(_, _)

ShutRest(r, i) == IF r.exc # "none" THEN r ELSE ShutAccumulators(r, i)

\* while keymap: _, tgt = keymap.popitem(); tgt.close()
ShutAccumulators(w, i) ==
    LET keymap == w.recv[i].keymap
        at == PopItem(keymap)
    IN  IF keymap = <<>> THEN w
        ELSE ShutRest(WrapClose([w EXCEPT !.recv[i].keymap =
                                              SubSeq(keymap, 1, at - 1)
                                              \o SubSeq(keymap, at + 1, Len(keymap)),
                                          !.recv[i].shut = Append(@, keymap[at].key),
                                          !.recv[i].last = 0],
                                i, keymap[at]), i)

\* ReduceByKeyClose with a popitem() before the dict is tested: KeyError on
\* an empty dict.
ReduceByKeyClosePopping(w, i) ==
    IF w.recv[i].keymap = <<>> THEN Raise(w, i, "KeyError")
    ELSE CloseTarget(ShutAccumulators(w, i), i)

\* ReduceByKey's handler: close every accumulator, then target.close().
ReduceByKeyClose(w, i) == CloseTarget(ShutAccumulators(w, i), i)

\* collect() has no handler; close() on a finished generator does nothing.
SinkClose(w, by) ==
    [w EXCEPT !.sink.closes = Append(@, by), !.sink.alive = FALSE]

\* GeneratorExit thrown into receiver i at its yield.
Exit(w, i) ==
    LET kind == w.recv[i].stage.kind
    IN  CASE kind = "Sort" -> SortClose(w, i)
          [] kind = "ReduceByKey" -> ReduceByKeyClose(w, i)
          [] OTHER -> PlainClose(w, i)

\* receiver.close() called by `by`, with everything it causes downstream.  A
\* generator that has not started just ends.
CloseRecv(w, i, by) ==
    IF i = TheSink THEN SinkClose(w, by)
    ELSE IF ~w.recv[i].alive THEN [w EXCEPT !.recv[i].closes = Append(@, by)]
    ELSE IF ~w.recv[i].primed
         THEN PlainClose([w EXCEPT !.recv[i].closes = Append(@, by)], i)
    ELSE Exit([w EXCEPT !.recv[i].closes = Append(@, by)], i)

\* ------------------------------------------------------- garbage collection
\* A stage receiver is referenced only by the frame of the receiver before
\* it (the head by CoroPipeline.__call__), the accumulators only by keymap
\* and tgt; the sink is referenced by the pipeline and is never collected.
\* When a generator is collected while suspended its finalizer calls close()
\* on it, and an exception of that close is printed and dropped.
Swallow(r) == [r EXCEPT !.exc = "none"]

\* The finalizer of one accumulator of receiver i.
FinalizeAccumulator(w, i, acc) ==
    IF acc.alive /\ acc.fed > 0
    THEN [Swallow(WrapClose(w, i, acc)) EXCEPT !.recv[i].shut = Append(@, acc.key)]
    ELSE w

\* The accumulators left in the dict of a dispatcher whose frame is freed,
\* in the order they lose their last reference: the dict's entries in
\* insertion order, the one tgt still names last.
RECURSIVE FinalizeAccumulators(_, _, _)
FinalizeAccumulators(w, i, order) ==
    IF order = <<>> THEN [w EXCEPT !.recv[i].keymap = <<>>, !.recv[i].last = 0]
    ELSE FinalizeAccumulators(
             FinalizeAccumulator(w, i, w.recv[i].keymap[Head(order)]),
             i, Tail(order))

RefOrder(r) ==
    LET n == Len(r.keymap)
        others == [j \in 1..n |-> j]
        IsOther(j) == j # r.last
    IN  IF r.last = 0 THEN others
        ELSE SelectSeq(others, IsOther) \o <<r.last>>

RECURSIVE Sweep(_, _)

\* Receiver i is finished and its frame freed: its accumulators and then its
\* target lose their last reference.
FreeFrame(w, i) ==
    Sweep(FinalizeAccumulators(w, i, RefOrder(w.recv[i])), w.recv[i].target)

\* Finalize receivers i and on of an unreachable chain, upstream first.
Sweep(w, i) ==
    IF i = TheSink THEN w
    ELSE FreeFrame(IF w.recv[i].alive THEN Swallow(CloseRecv(w, i, By("gc", w.recv[i].call))) ELSE w, i)

\* Whether a chain still holds a generator a collection would finalize.
Unswept(chain) ==
    \E i \in 1..Len(chain) :
        \/ chain[i].alive
        \/ \E j \in 1..Len(chain[i].keymap) : chain[i].keymap[j].alive

\* ------------------------------------------------------------ pull variant
\* The objects of the pull variant: two Pipeline instances, and what is
\* piped into them: an ops.map instance, a bare ops.Operation(), the second
\* pipeline, and None.
Pipes == {"main", "sub"}
Piped == {"mapper", "bare", "sub", "None"}

\* More operations: an ops.reduce_by_key instance, and two instances of an
\* Operation subclass whose __call__ reads the thread pool, or the process
\* pool, of its pipeline.
Operands == Piped \cup {"reducer", "threaded", "processed"}

ClassOf(o) ==
    CASE o = "mapper" -> "map"
      [] o = "bare" -> "Operation"
      [] o = "reducer" -> "reduce_by_key"
      [] o \in {"threaded", "processed"} -> "Op"
      [] o \in Pipes -> "Pipeline"
      [] OTHER -> "NoneType"

\* isinstance(other, (Operation, Pipeline)); map, reduce_by_key and Op derive
\* from Operation.
IsOperation(other) ==
    ClassOf(other) \in {"Operation", "map", "reduce_by_key", "Op", "Pipeline"}

\* The base classes, whose __call__ only raises, and a subclass that
\* overrides it.
BareKinds == {"CoroTransform", "Operation", "Transform"}
DirectKinds == BareKinds \cup {"Sort"}

\* What no call has returned.
NoCall == [of |-> "none", made |-> FALSE, items |-> <<>>]

\* A base class whose __call__ hands its argument back.
DirectCallPassing(kind, stream) ==
    IF kind \in BareKinds THEN Ok(stream)
    ELSE IF SortRaises(stream, "none") THEN Raises("TypeError")
    ELSE Ok(Sorted(stream, "none", FALSE))

\* stage(stream) on an instance of the class: CoroTransform.__call__,
\* ops.Operation.__call__ and transform.Transform.__call__ raise
\* NotImplementedError; transform.Sort.__call__ returns sorted(stream).
DirectCall(kind, stream) ==
    IF kind \in BareKinds THEN Raises("NotImplementedError")
    ELSE IF SortRaises(stream, "none") THEN Raises("TypeError")
    ELSE Ok(Sorted(stream, "none", FALSE))

\* The pools a pipeline holds before its first call (the attributes are not
\* set), and the handles a call is given: None or an executor.
NoPools == [process |-> "unset", thread |-> "unset"]
PoolHandles == {"none", "pool"}

\* What no call of a pipeline has returned.
NoResult == [of |-> "none", made |-> FALSE, items |-> <<>>, exc |-> "none"]

\* The objects that take a label: a coro.Map, an ops.Operation and a
\* transform.Transform, each of which has the description property and
\* __rrshift__ from its base class.
Labelled == {"Map", "Operation", "Transform"}

\* What stands left of >>.
Labels == {"description", "first", "second"}

\* No stage has a _description attribute, and nothing was labelled.
NoLabels == [attr |-> [o \in Labelled |-> [set |-> FALSE, value |-> ""]],
             gave |-> "none"]

\* No second pipeline object has been constructed.
NoSecond == [made |-> FALSE, transforms |-> <<>>, sink |-> NewSink,
             shared |-> FALSE]

\* The caller holds no iterator of an earlier call of a pull pipeline.
NoHeld == [made |-> FALSE, of |-> "none", ops |-> <<>>, given |-> NoPools,
           left |-> 0]

\* initial=[[]]: a list holding one empty list.  `top` is what has been put
\* into the outer list after that, `inner` what the inner list holds.
NewInitial == [top |-> <<>>, inner |-> <<>>]

\* No with-block has been entered.
NoBlocks == [depth |-> 0, entered |-> 0, closed |-> 0]

\* ------------------------------------------------------------ state machine
VARIABLES
    transforms,   \* CoroPipeline.transforms: the stages, in declaration order
    sink,         \* CoroPipeline.sink: the generator given to __init__
    data,         \* the list the caller passes to the pipeline
    gc,           \* how the interpreter reclaims generators
    pc,           \* "idle", "feeding" (inside __call__), "returned",
                  \* "raised" (an exception is leaving __call__), "aborted"
    recv,         \* the receivers the current or latest call built
    head,         \* the local `target` of __call__ after the build loop
    pos,          \* how many items the for loop has taken from the stream
    calls,        \* how many times the pipeline was called
    err,          \* the exception of the latest operation, or "none"
    mark,         \* what the latest call found: the lengths of the sink's
                  \* queue and closes, and the chain, outcome and output of
                  \* the call before it
    garbage,      \* chains of earlier calls not yet collected
    operations,   \* Pipeline._operations of each pull pipeline
    owner,        \* the `pipeline` attribute of each object piped into one
    returned,     \* what the latest direct call of a stage object returned
    pools,        \* Pipeline._process_pool, ._thread_pool of each pull pipeline
    result,       \* the iterator the latest operation on a pull pipeline
                  \* returned, if it was a call
    ctx,          \* the with-blocks on the pull pipeline "main": how many
                  \* are open, how many were entered, and the calls of close()
    initial,      \* the list the caller passes as `initial` to the serial
                  \* reduce_by_key: what it holds by now
    labels,       \* the _description attribute of each stage object, and the
                  \* object the latest `label >> stage` gave back
    second,       \* a second CoroPipeline object, the one not in hand: whether
                  \* it has been constructed, its transforms, and its sink
                  \* unless it has the sink of the first
    held          \* the iterator of an earlier call of a pull pipeline that
                  \* the caller still holds: the pipeline, the operations
                  \* that call ran, the pools it stored, and how many
                  \* items are left in the iterator

vars == <<transforms, sink, data, gc, pc, recv, head, pos, calls, err, mark,
          garbage, operations, owner, returned, pools, result, ctx, initial,
          labels, second, held>>

\* The state of single objects: of a pipeline as a context manager, of the
\* caller's initial value, and of the stages that can be labelled.
objvars == <<ctx, initial, labels, second, held>>

\* The state of pull pipelines being run.
runvars == <<pools, result>>

\* The single objects as they are made.
ObjIdle ==
    /\ ctx = NoBlocks
    /\ initial = NewInitial
    /\ labels = NoLabels
    /\ second = NoSecond
    /\ held = NoHeld

\* CPython frees a generator when its last reference goes ("refcount");
\* PyPy some time later, if at all ("deferred").
GcModes == {"refcount", "deferred"}

World == [recv |-> recv, sink |-> sink, exc |-> "none"]

\* CoroPipeline.__init__, with sink=collect(queue) for an empty queue.
Init ==
    /\ transforms = <<>>
    /\ sink = NewSink
    /\ data \in Streams
    /\ gc \in GcModes
    /\ pc = "idle"
    /\ recv = <<>>
    /\ head = TheSink
    /\ pos = 0
    /\ calls = 0
    /\ err = "none"
    /\ mark = [queue |-> 0, closes |-> 0, chain |-> <<>>, ok |-> FALSE,
               out |-> <<>>]
    /\ garbage = <<>>
    /\ operations = [p \in Pipes |-> <<>>]
    /\ owner = [o \in Operands |-> "none"]
    /\ returned = NoCall
    /\ pools = [p \in Pipes |-> NoPools]
    /\ result = NoResult
    /\ ObjIdle

Resting == pc \in {"idle", "returned", "aborted"}

\* Or with the append done before the isinstance check.
OrAppendingFirst(other) ==
    /\ Resting
    /\ Len(transforms) < MaxStages
    /\ transforms' = Append(transforms, other)
    /\ err' = IF IsCoroTransform(other) THEN "none" ELSE "NotACoroTransform"
    /\ pc' = "idle"
    /\ UNCHANGED <<sink, data, gc, recv, head, pos, calls, mark, garbage,
                   operations, owner, returned, runvars, objvars>>

\* CoroPipeline.__or__ / __ior__
Or(other) ==
    /\ Resting
    /\ IF ~IsCoroTransform(other)
       THEN /\ err' = "NotACoroTransform"
            /\ UNCHANGED <<transforms, pc>>
       ELSE /\ Len(transforms) < MaxStages
            /\ transforms' = Append(transforms, other)
            /\ err' = "none"
            /\ pc' = "idle"
    /\ UNCHANGED <<sink, data, gc, recv, head, pos, calls, mark, garbage,
                   operations, owner, returned, runvars, objvars>>

\* pipeline | Sample(*args): the constructor runs first, and __or__ only if
\* it gave an instance.
PipeSample(args) ==
    IF SampleInit(args).exc = "none" THEN Or(SampleInit(args).val)
    ELSE /\ Resting
         /\ err' = SampleInit(args).exc
         /\ UNCHANGED <<transforms, sink, data, gc, pc, recv, head, pos, calls,
                        mark, garbage,
                   operations, owner, returned, runvars, objvars>>

\* target = self.sink; for trans in reversed(self.transforms):
\*     target = trans(target)
\* The receiver of stage i is bound to the receiver of stage i + 1, the last
\* one to the sink.
\* The loop runs from the last stage to the first and stops at a stage
\* whose call raises: the receivers of the stages before it are not made.
Failing(ts) ==
    IF \E j \in 1..Len(ts) : TransRaises(ts[j]) # "none"
    THEN CHOOSE j \in 1..Len(ts) :
            /\ TransRaises(ts[j]) # "none"
            /\ \A m \in (j + 1)..Len(ts) : TransRaises(ts[m]) = "none"
    ELSE 0

\* Build with each receiver taking over what the receiver of the call
\* before had buffered and accumulated.
BuildStale(ts, call) ==
    [i \in 1..Len(ts) |->
        IF i <= Failing(ts) THEN NotBuilt(ts[i], call)
        ELSE IF i <= Len(recv)
        THEN [NewReceiver(ts[i], IF i = Len(ts) THEN TheSink ELSE i + 1, call)
                 EXCEPT !.out = recv[i].out, !.keymap = recv[i].keymap]
        ELSE NewReceiver(ts[i], IF i = Len(ts) THEN TheSink ELSE i + 1, call)]

\* Build with every stage bound to the sink.
BuildAllToSink(ts, call) ==
    [i \in 1..Len(ts) |->
        IF i <= Failing(ts) THEN NotBuilt(ts[i], call)
        ELSE NewReceiver(ts[i], TheSink, call)]

Build(ts, call) ==
    [i \in 1..Len(ts) |->
        IF i <= Failing(ts) THEN NotBuilt(ts[i], call)
        ELSE NewReceiver(ts[i], IF i = Len(ts) THEN TheSink ELSE i + 1, call)]

HeadOf(ts) ==
    IF Failing(ts) = Len(ts) THEN TheSink ELSE Failing(ts) + 1

BuildRaises(ts) ==
    IF Failing(ts) = 0 THEN "none" ELSE TransRaises(ts[Failing(ts)])

\* CoroPipeline.__call__ up to the for loop
Call ==
    /\ Resting
    /\ calls < MaxCalls
    /\ recv' = Build(transforms, calls + 1)
    /\ head' = HeadOf(transforms)
    /\ garbage' = IF Unswept(recv) THEN Append(garbage, recv) ELSE garbage
    /\ pc' = IF BuildRaises(transforms) = "none" THEN "feeding" ELSE "raised"
    /\ pos' = 0
    /\ calls' = calls + 1
    /\ err' = BuildRaises(transforms)
    /\ mark' = [queue |-> Len(sink.queue), closes |-> Len(sink.closes),
                chain |-> [i \in 1..Len(recv) |-> recv[i].stage],
                ok |-> pc = "returned",
                out |-> SubSeq(sink.queue, mark.queue + 1, Len(sink.queue))]
    /\ UNCHANGED <<transforms, sink, data, gc,
                   operations, owner, returned, runvars, objvars>>

\* The receivers are unreachable once __call__ is left: a refcounting
\* interpreter finalizes them at once.
Reclaim(w) ==
    IF gc = "refcount" /\ w.exc = "none" THEN Sweep(w, head) ELSE w

\* Where a step of __call__ leaves the pipeline.
Land(w, onwards) ==
    /\ recv' = w.recv
    /\ sink' = w.sink
    /\ err' = w.exc
    /\ pc' = IF w.exc = "none" THEN onwards ELSE "raised"

\* for item in stream: target.send(item)
Send ==
    /\ pc = "feeding"
    /\ pos < Len(data)
    /\ Land(SendTo(World, head, data[pos + 1]), "feeding")
    /\ pos' = pos + 1
    /\ UNCHANGED <<transforms, data, gc, head, calls, mark, garbage,
                   operations, owner, returned, runvars, objvars>>

\* Close without waiting for the stream to be exhausted.
CloseEarly ==
    /\ pc = "feeding"
    /\ Land(Reclaim(CloseRecv(World, head, By("execute", calls))), "returned")
    /\ UNCHANGED <<transforms, data, gc, head, pos, calls, mark, garbage,
                   operations, owner, returned, runvars, objvars>>

\* target.close(), and the return of __call__
Close ==
    /\ pc = "feeding"
    /\ pos = Len(data)
    /\ Land(Reclaim(CloseRecv(World, head, By("execute", calls))), "returned")
    /\ UNCHANGED <<transforms, data, gc, head, pos, calls, mark, garbage,
                   operations, owner, returned, runvars, objvars>>

\* What a collection leaves of the receivers and the sink.
Swept(w) ==
    /\ recv' = w.recv
    /\ sink' = w.sink

\* The caller is done with the exception: the traceback and the frames it
\* kept are released.
Unwind ==
    /\ pc = "raised"
    /\ Swept(Reclaim(World))
    /\ pc' = "aborted"
    /\ UNCHANGED <<transforms, data, gc, head, pos, calls, err, mark, garbage,
                   operations, owner, returned, runvars, objvars>>

\* A collection of a deferring interpreter finalizes the chain of the latest
\* call, once __call__ is left.
CollectLatest ==
    /\ gc = "deferred"
    /\ Resting
    /\ Unswept(recv)
    /\ Swept(Sweep(World, head))
    /\ UNCHANGED <<transforms, data, gc, pc, head, pos, calls, err, mark, garbage,
                   operations, owner, returned, runvars, objvars>>

\* What a collection of an earlier chain leaves of the sink.
SweptEarlier(w) == sink' = w.sink

\* ... or the chain of an earlier call, at any time.
CollectEarlier ==
    /\ garbage # <<>>
    /\ SweptEarlier(Sweep([recv |-> Head(garbage), sink |-> sink, exc |-> "none"],
                          HeadOf([i \in 1..Len(Head(garbage)) |->
                                      Head(garbage)[i].stage])))
    /\ garbage' = Tail(garbage)
    /\ UNCHANGED <<transforms, data, gc, pc, recv, head, pos, calls, err, mark,
                   operations, owner, returned, runvars, objvars>>

\* ----------------------------------------------- pull variant: operations
corovars == <<transforms, sink, gc, pc, recv, head, pos, calls, mark, garbage>>

\* Pipeline.__or__ with the operation put in front.
PipelineOrPrepending(p, other) ==
    /\ IF ~IsOperation(other)
       THEN /\ err' = "NotAnOperation"
            /\ UNCHANGED <<operations, owner>>
       ELSE /\ Len(operations[p]) < MaxOps
            /\ owner' = [owner EXCEPT ![other] = p]
            /\ operations' = [operations EXCEPT ![p] = <<other>> \o @]
            /\ err' = "none"
    /\ result' = NoResult
    /\ UNCHANGED <<corovars, data, returned, pools, objvars>>

\* Pipeline.__or__ / __ior__
PipelineOr(p, other) ==
    /\ IF ~IsOperation(other)
       THEN /\ err' = "NotAnOperation"
            /\ UNCHANGED <<operations, owner>>
       ELSE /\ Len(operations[p]) < MaxOps
            /\ owner' = [owner EXCEPT ![other] = p]
            /\ operations' = [operations EXCEPT ![p] = Append(@, other)]
            /\ err' = "none"
    /\ result' = NoResult
    /\ UNCHANGED <<corovars, data, returned, pools, objvars>>

\* A stage object called directly with the data.
Invoke(kind) ==
    /\ err' = DirectCall(kind, data).exc
    /\ returned' = IF DirectCall(kind, data).exc = "none"
                   THEN [of |-> kind, made |-> TRUE, items |-> DirectCall(kind, data).val]
                   ELSE [of |-> kind, made |-> FALSE, items |-> <<>>]
    /\ UNCHANGED <<corovars, data, operations, owner, runvars, objvars>>

InitPull ==
    /\ transforms = <<>>
    /\ sink = NewSink
    /\ data \in Streams
    /\ gc = "refcount"
    /\ pc = "idle"
    /\ recv = <<>>
    /\ head = TheSink
    /\ pos = 0
    /\ calls = 0
    /\ err = "none"
    /\ mark = [queue |-> 0, closes |-> 0, chain |-> <<>>, ok |-> FALSE,
               out |-> <<>>]
    /\ garbage = <<>>
    /\ operations = [p \in Pipes |-> <<>>]
    /\ owner = [o \in Operands |-> "none"]
    /\ returned = NoCall
    /\ pools = [p \in Pipes |-> NoPools]
    /\ result = NoResult
    /\ ObjIdle

\* Specification of the pull variant: pipelines being assembled, and stage
\* objects called directly.
NextPull ==
    \/ \E p \in Pipes, other \in Piped : PipelineOr(p, other)
    \/ \E kind \in DirectKinds : Invoke(kind)

SpecPull == InitPull /\ [][NextPull]_vars

\* ------------------------------------------------ pull variant: execution
\* An iterator: it gives `items` one by one and then raises `exc`, or just
\* ends if exc is "none".
Lazy(items, exc) == [items |-> items, exc |-> exc]

\* The first item on which the function raises, or one past the last item.
FirstFailing(f, items) ==
    IF \E j \in 1..Len(items) : CallFunc(f, items[j]).exc # "none"
    THEN CHOOSE j \in 1..Len(items) :
            /\ CallFunc(f, items[j]).exc # "none"
            /\ \A m \in 1..(j - 1) : CallFunc(f, items[m]).exc = "none"
    ELSE Len(items) + 1

\* ops.map.__call__: builtin_map(self.func, stream).  Nothing is computed
\* until the result is iterated; the function's exception ends it.
builtin_map(f, s) ==
    LET n == FirstFailing(f, s.items)
    IN  Lazy([j \in 1..(n - 1) |-> CallFunc(f, s.items[j]).val],
             IF n <= Len(s.items) THEN CallFunc(f, s.items[n]).exc ELSE s.exc)

\* A fold from the right: func(v[0], func(v[1], ...)).
RECURSIVE reduceRight(_, _)
reduceRight(f, v) ==
    IF Len(v) = 1 THEN v[1]
    ELSE CallReduce(f, v[1], reduceRight(f, Tail(v)))

\* functools.reduce(func, v) on a non-empty deque: a left fold whose first
\* value is taken as it is.
RECURSIVE reduce(_, _)
reduce(f, v) ==
    IF Len(v) = 1 THEN v[1]
    ELSE CallReduce(f, reduce(f, SubSeq(v, 1, Len(v) - 1)), v[Len(v)])

\* The keys of partitioned, a dict: in the order they were first inserted.
PartitionKeys(items) ==
    LET idx == [j \in 1..Len(items) |-> j]
        IsFirst(j) == \A m \in 1..(j - 1) : items[m].k # items[j].k
        firsts == SelectSeq(idx, IsFirst)
    IN  [n \in 1..Len(firsts) |-> items[firsts[n]].k]

\* partitioned[key]: the values of the key in arrival order.
Partition(items, key) ==
    LET HasKey(x) == x.k = key
        sel == SelectSeq(items, HasKey)
    IN  [j \in 1..Len(sel) |-> sel[j].v]

\* ops.reduce_by_key.__call__, a generator function: on the first next() it
\* takes the whole stream apart (`for key, value in stream` raises TypeError
\* on an item that is no pair) and then gives (k, reduce(func, v)) per key.
reduce_by_key(f, s) ==
    IF \E j \in 1..Len(s.items) : s.items[j].tag # "pair"
    THEN Lazy(<<>>, "TypeError")
    ELSE IF s.exc # "none" THEN Lazy(<<>>, s.exc)
    ELSE Lazy([n \in 1..Len(PartitionKeys(s.items)) |->
                  Pair(PartitionKeys(s.items)[n],
                       reduce(f, Partition(s.items, PartitionKeys(s.items)[n])))],
              "none")

\* A pool property that hands out whatever is stored.
PoolReadSilent(pool) == "none"

\* Pipeline.thread_pool / process_pool: getattr(self, '_thread_pool', None);
\* NoPool if that is None.
PoolRead(pool) == IF pool \in {"unset", "none"} THEN "NoPool" ELSE "none"

\* Which pool an Op instance reads.
PoolOf(o) == IF o = "threaded" THEN "thread" ELSE "process"

\* Op.__call__: self.pipeline.thread_pool (or process_pool), and nothing is
\* returned, on which iter() raises TypeError.
OpCall(o, pl) ==
    IF PoolRead(pl[owner[o]][PoolOf(o)]) # "none"
    THEN PoolRead(pl[owner[o]][PoolOf(o)])
    ELSE "TypeError"

\* How deep pipelines nest before the interpreter raises RecursionError.
MaxDepth == 2

RECURSIVE PipelineRun(_, _, _, _, _, _)

\* data = iter(op(data)), with the pools as they are: r.pools
ApplyOp(o, r, depth) ==
    CASE o = "mapper" -> [r EXCEPT !.val = builtin_map("keyed", r.val)]
      [] o = "reducer" -> [r EXCEPT !.val = reduce_by_key("horner", r.val)]
      [] o = "bare" -> [r EXCEPT !.exc = "NotImplementedError"]
      [] o \in {"threaded", "processed"} -> [r EXCEPT !.exc = OpCall(o, r.pools)]
      [] o \in Pipes -> PipelineRun(o, r.val, "none", "none", r.pools, depth + 1)

\* The loop over the operations taken from the last to the first.
RECURSIVE RunOpsBackwards(_, _, _)
RunOpsBackwards(ops, r, depth) ==
    IF ops = <<>> \/ r.exc # "none" THEN r
    ELSE RunOpsBackwards(SubSeq(ops, 1, Len(ops) - 1),
                         ApplyOp(ops[Len(ops)], r, depth), depth)

\* for op in self.operations: data = iter(op(data))
RECURSIVE RunOps(_, _, _)
RunOps(ops, r, depth) ==
    IF ops = <<>> \/ r.exc # "none" THEN r
    ELSE RunOps(Tail(ops), ApplyOp(Head(ops), r, depth), depth)

\* Pipeline.__call__(data, process_pool, thread_pool): what it raises, the
\* iterator it returns, and the pools of every pipeline afterwards.
PipelineRun(p, s, process_pool, thread_pool, pl, depth) ==
    IF depth > MaxDepth THEN [exc |-> "RecursionError", val |-> s, pools |-> pl]
    ELSE RunOps(operations[p],
                [exc |-> "none", val |-> s,
                 pools |-> [pl EXCEPT ![p] = [process |-> process_pool,
                                              thread |-> thread_pool]]],
                depth)

\* Where a call of pipeline p leaves the pools and the caller.
Returns(p, r) ==
    /\ pools' = r.pools
    /\ err' = r.exc
    /\ result' = IF r.exc # "none" THEN [NoResult EXCEPT !.of = p]
                 ELSE [of |-> p, made |-> TRUE, items |-> r.val.items,
                       exc |-> r.val.exc]

\* p(data, process_pool=..., thread_pool=...)
PipelineCall(p, process_pool, thread_pool) ==
    /\ Returns(p, PipelineRun(p, Lazy(data, "none"), process_pool, thread_pool,
                              pools, 0))
    /\ UNCHANGED <<corovars, data, operations, owner, returned, objvars>>

\* An operation reads self.pipeline.thread_pool (or process_pool) outside
\* its __call__: while the iterator it returned is consumed, say.
ReadPool(o, which) ==
    /\ owner[o] # "none"
    /\ err' = PoolRead(pools[owner[o]][which])
    /\ result' = NoResult
    /\ UNCHANGED <<corovars, data, operations, owner, returned, pools, objvars>>

\* The operations piped into pipelines that are called with pools, and
\* the data these are called with.
RunPiped == {"mapper", "threaded", "processed", "sub"}
MaxPullLen == 2
PoolStreams == SeqsUpTo({Num(1)}, MaxPullLen)

\* No push pipeline is at work.
CoroIdle ==
    /\ transforms = <<>>
    /\ sink = NewSink
    /\ gc = "refcount"
    /\ pc = "idle"
    /\ recv = <<>>
    /\ head = TheSink
    /\ pos = 0
    /\ calls = 0
    /\ mark = [queue |-> 0, closes |-> 0, chain |-> <<>>, ok |-> FALSE,
               out |-> <<>>]
    /\ garbage = <<>>

\* No pull pipeline has been given an operation or been called.
PullIdle ==
    /\ err = "none"
    /\ operations = [p \in Pipes |-> <<>>]
    /\ owner = [o \in Operands |-> "none"]
    /\ returned = NoCall
    /\ pools = [p \in Pipes |-> NoPools]
    /\ result = NoResult
    /\ ObjIdle

InitRun ==
    /\ CoroIdle
    /\ PullIdle
    /\ data \in PoolStreams

\* Specification of pull pipelines being assembled and called with and
\* without pools.
NextRun ==
    \/ \E p \in Pipes, other \in RunPiped : PipelineOr(p, other)
    \/ \E p \in Pipes, process_pool \in PoolHandles, thread_pool \in PoolHandles :
          PipelineCall(p, process_pool, thread_pool)
    \/ \E o \in {"threaded", "processed"}, which \in {"thread", "process"} :
          ReadPool(o, which)

SpecRun == InitRun /\ [][NextRun]_vars

\* first = p(data, ...): the caller keeps the iterator the latest call
\* returned.  A call that returns has left in _process_pool and _thread_pool
\* of its pipeline the pools it was given.
Hold ==
    /\ result.made
    /\ held' = [made |-> TRUE, of |-> result.of,
                ops |-> operations[result.of], given |-> pools[result.of],
                left |-> Len(result.items)]
    /\ UNCHANGED <<corovars, data, err, operations, owner, returned, runvars,
                   ctx, initial, labels, second>>

\* next(first): the held iterator computes its next item, and in doing so
\* operation o of the call that returned it (the function of an ops.map, the
\* body of a generator) reads self.pipeline.thread_pool or .process_pool:
\* getattr on the pipeline that owns it now, as that pipeline is now.
Consume(o, which) ==
    /\ held.made
    /\ held.left > 0
    /\ \E j \in 1..Len(held.ops) : held.ops[j] = o
    /\ err' = PoolRead(pools[owner[o]][which])
    /\ held' = [held EXCEPT !.left = @ - 1]
    /\ result' = NoResult
    /\ UNCHANGED <<corovars, data, operations, owner, returned, pools, ctx,
                   initial, labels, second>>

\* Specification of pull pipelines called with and without pools while the
\* output of an earlier call is still being consumed.
NextLazy ==
    \/ \E p \in Pipes, other \in {"mapper", "sub"} : PipelineOr(p, other)
    \/ \E p \in Pipes, process_pool \in PoolHandles, thread_pool \in PoolHandles :
          PipelineCall(p, process_pool, thread_pool)
    \/ Hold
    \/ \E o \in {"mapper"}, which \in {"thread", "process"} : Consume(o, which)

SpecLazy == InitRun /\ [][NextLazy]_vars

\* The operations piped into pipelines that are composed, and the data these
\* are called with.
ComposePiped == {"mapper", "reducer", "sub"}
PullStreams == SeqsUpTo(IntItems, MaxPullLen) \cup SeqsUpTo(PairItems, MaxPullLen)

InitCompose ==
    /\ CoroIdle
    /\ PullIdle
    /\ data \in PullStreams

\* Specification of pull pipelines composed of operations and of one another,
\* and called without pools.
NextCompose ==
    \/ \E p \in Pipes, other \in ComposePiped : PipelineOr(p, other)
    \/ \E p \in Pipes : PipelineCall(p, "none", "none")

SpecCompose == InitCompose /\ [][NextCompose]_vars

\* ------------------------------------------- pull variant: context manager
MaxBlocks == 3     \* with-blocks entered on one pipeline

\* Pipeline.close(), as a subclass that counts its calls sees it.
PipelineClose(c) == [c EXCEPT !.closed = @ + 1]

\* Pipeline.__enter__: return self
PipelineEnter(c) == c

\* An __exit__ that leaves the teardown to the caller.
PipelineExitSilent(c) == c

\* Pipeline.__exit__: self.close().  It returns None: an exception that ended
\* the block goes on to the caller.
PipelineExit(c) == PipelineClose(c)

\* `with pipeline:` is entered.
Enter ==
    /\ ctx.entered < MaxBlocks
    /\ ctx' = [PipelineEnter(ctx) EXCEPT !.depth = @ + 1, !.entered = @ + 1]
    /\ err' = "none"
    /\ result' = NoResult
    /\ UNCHANGED <<corovars, data, operations, owner, returned, pools, initial,
                   labels, second, held>>

\* The innermost with-block ends: normally (any exception was caught inside
\* it), or by the exception of the latest operation, which __exit__ does not
\* catch.
Leave(how) ==
    /\ ctx.depth > 0
    /\ how = "exception" => err # "none"
    /\ ctx' = [PipelineExit(ctx) EXCEPT !.depth = @ - 1]
    /\ err' = IF how = "exception" THEN err ELSE "none"
    /\ result' = NoResult
    /\ UNCHANGED <<corovars, data, operations, owner, returned, pools, initial,
                   labels, second, held>>

InitWith ==
    /\ CoroIdle
    /\ PullIdle
    /\ data \in PoolStreams

\* Specification of a pull pipeline used as a context manager: inside and
\* outside its with-blocks it is given operations and called.
NextWith ==
    \/ Enter
    \/ \E how \in {"normal", "exception"} : Leave(how)
    \/ \E other \in {"mapper", "bare"} : PipelineOr("main", other)
    \/ PipelineCall("main", "none", "none")

SpecWith == InitWith /\ [][NextWith]_vars

\* ----------------------------------------- serial variant: reduce_by_key
\* The lists at work in one run of reduce_by_key: the one the caller passed
\* as initial, and the copy made for a key.  A value that is a tuple is kept
\* by its content.
Caller == <<"initial", 0>>
CopyOf(key) == <<"copy", key>>
Tuple == <<"tuple", 0>>
\* The heap: what each outer list holds after its inner list (top), which
\* inner list its first element is (link), and what each inner list holds.
HeapOf(init) ==
    LET Lists == {Caller} \cup {CopyOf(x.k) : x \in PairItems}
    IN  [top |-> [id \in Lists |-> IF id = Caller THEN init.top ELSE <<>>],
         inner |-> [id \in Lists |-> IF id = Caller THEN init.inner ELSE <<>>],
         link |-> [id \in Lists |-> id]]

\* reduce_by_key.__init__: the copier the two flags select, or ValueError.
Copier(copy_initial, deepcopy_initial) ==
    IF copy_initial /\ deepcopy_initial THEN Raises("ValueError")
    ELSE IF copy_initial THEN Ok("copy")
    ELSE IF deepcopy_initial THEN Ok("deepcopy")
    ELSE Ok("none")

\* Where the heap would be if copy.deepcopy stopped at the outer list.
CopiedShallow(h, key, copier) ==
    IF copier = "none" THEN h
    ELSE [h EXCEPT !.top[CopyOf(key)] = h.top[Caller],
                   !.link[CopyOf(key)] = h.link[Caller]]

\* Where self.copier(self.initial) leaves the heap for a new key: lambda x: x
\* makes nothing; copy.copy makes a new outer list with the same elements,
\* the inner list being one of them; copy.deepcopy copies the inner list too.
Copied(h, key, copier) ==
    IF copier = "none" THEN h
    ELSE IF copier = "copy"
    THEN [h EXCEPT !.top[CopyOf(key)] = h.top[Caller],
                   !.link[CopyOf(key)] = h.link[Caller]]
    ELSE [h EXCEPT !.top[CopyOf(key)] = h.top[Caller],
                   !.inner[CopyOf(key)] = h.inner[h.link[Caller]],
                   !.link[CopyOf(key)] = CopyOf(key)]

\* Reducers: "iadd" is operator.iadd, which extends a list in place by the
\* elements of the value and makes a new tuple of a tuple; "nested" is
\* lambda a, b: a[0].append(b[1]) or a, which changes the list inside its
\* first argument and raises on a tuple, whose a[0] is an int.
SerialReducers == {"iadd", "nested"}

\* partitioned[key] = self.reducer(p_value, value) for the entry at `at`
SerialReducer(st, at, x, reducer) ==
    LET ref == st.part[at].ref
    IN  IF ref = Tuple
        THEN IF reducer = "iadd"
             THEN [st EXCEPT !.part[at].tup = @ \o <<x.k, x.v>>]
             ELSE [st EXCEPT !.exc = "AttributeError"]
        ELSE IF reducer = "iadd"
             THEN [st EXCEPT !.h.top[ref] = @ \o <<x.k, x.v>>]
             ELSE [st EXCEPT !.h.inner[st.h.link[ref]] = Append(@, x.v)]

\* partitioned.get(key, tools.NULL): the place of the key's entry, or 0
SerialFound(part, key) ==
    IF \E j \in 1..Len(part) : part[j].key = key
    THEN CHOOSE j \in 1..Len(part) : part[j].key = key
    ELSE 0

\* One round of `for key, value in stream`, with keyfunc=itemgetter(0) and
\* the item itself as the value.
SerialStep(st, x, reducer, copier, given) ==
    IF x.tag # "pair" THEN [st EXCEPT !.exc = "TypeError"]
    ELSE IF SerialFound(st.part, x.k) # 0
    THEN SerialReducer(st, SerialFound(st.part, x.k), x, reducer)
    ELSE IF ~given
    THEN [st EXCEPT !.part = Append(@, [key |-> x.k, ref |-> Tuple,
                                        tup |-> <<x.k, x.v>>])]
    ELSE SerialReducer([st EXCEPT !.part = Append(@, [key |-> x.k,
                                                      ref |-> IF copier = "none" THEN Caller
                                                              ELSE CopyOf(x.k),
                                                      tup |-> <<>>]),
                                  !.h = Copied(@, x.k, copier)],
                       Len(st.part) + 1, x, reducer)

RECURSIVE SerialLoop(_, _, _, _, _)
SerialLoop(st, items, reducer, copier, given) ==
    IF items = <<>> \/ st.exc # "none" THEN st
    ELSE SerialLoop(SerialStep(st, Head(items), reducer, copier, given),
                    Tail(items), reducer, copier, given)

\* while partitioned: yield partitioned.popitem()
\* The entries come last-inserted first, each with what the caller finds in
\* its value.
SerialItems(st) ==
    LET Deref(entry) ==
            IF entry.ref = Tuple
            THEN [key |-> entry.key, top |-> entry.tup, inner |-> <<>>]
            ELSE [key |-> entry.key, top |-> st.h.top[entry.ref],
                  inner |-> st.h.inner[st.h.link[entry.ref]]]
    IN  IF st.exc # "none" THEN <<>>
        ELSE [n \in 1..Len(st.part) |-> Deref(st.part[Len(st.part) + 1 - n])]

\* Where the run leaves the caller: the items and the exception that
\* list(o(data)) gives, and the caller's initial list.
SerialLands(st) ==
    /\ result' = [of |-> "reduce_by_key", made |-> TRUE,
                  items |-> SerialItems(st), exc |-> st.exc]
    /\ err' = st.exc
    /\ initial' = [top |-> st.h.top[Caller], inner |-> st.h.inner[Caller]]

MaxInitial == 1    \* elements the initial list may hold before a run

\* o = reduce_by_key(reducer, itemgetter(0), initial=..., copy_initial=...,
\* deepcopy_initial=...); list(o(data)).  `given` is whether initial is passed
\* at all.
SerialReduce(reducer, copy_initial, deepcopy_initial, given) ==
    /\ Len(initial.top) + Len(initial.inner) <= MaxInitial
    /\ IF Copier(copy_initial, deepcopy_initial).exc # "none"
       THEN /\ err' = Copier(copy_initial, deepcopy_initial).exc
            /\ result' = NoResult
            /\ UNCHANGED initial
       ELSE SerialLands(SerialLoop([part |-> <<>>, h |-> HeapOf(initial),
                                    exc |-> "none"],
                                   data, reducer,
                                   Copier(copy_initial, deepcopy_initial).val,
                                   given))
    /\ UNCHANGED <<corovars, data, operations, owner, returned, pools, ctx,
                   labels, second, held>>

InitSerial ==
    /\ CoroIdle
    /\ PullIdle
    /\ data \in Streams

\* Specification of the serial reduce_by_key run on a stream, again and
\* again with the same initial list.
NextSerial ==
    \E reducer \in SerialReducers, copy_initial \in BOOLEAN,
       deepcopy_initial \in BOOLEAN, given \in BOOLEAN :
        SerialReduce(reducer, copy_initial, deepcopy_initial, given)

SpecSerial == InitSerial /\ [][NextSerial]_vars

\* ------------------------------------------------------- stage labels
\* repr(self): object.__repr__, the class and the address of the object.
Repr(o) ==
    IF o = "Map" THEN "<tinyflow.coro.Map object>"
    ELSE IF o = "Operation" THEN "<tinyflow.ops.Operation object>"
    ELSE "<tinyflow.transform.Transform object>"

\* A description that no label changes.
descriptionDefault(o) == Repr(o)

\* The description property: getattr(self, '_description', repr(self))
description(o) ==
    IF labels.attr[o].set THEN labels.attr[o].value ELSE Repr(o)

\* other >> o: __rrshift__ stores other through the setter of description
\* and returns self.
RRShift(other, o) ==
    /\ labels' = [attr |-> [labels.attr EXCEPT ![o] = [set |-> TRUE,
                                                       value |-> other]],
                  gave |-> o]
    /\ UNCHANGED <<corovars, data, err, operations, owner, returned, runvars,
                   ctx, initial, second, held>>

InitLabel ==
    /\ CoroIdle
    /\ PullIdle
    /\ data = <<>>

\* Specification of stages being labelled, again and again.
NextLabel == \E other \in Labels, o \in Labelled : RRShift(other, o)

SpecLabel == InitLabel /\ [][NextLabel]_vars

\* ------------------------------------------------- two pipeline objects
\* b = CoroPipeline(), or b = CoroPipeline(collect(queue)), next to the
\* pipeline in hand, which was constructed without a sink.  The default of
\* the sink parameter, printer(), is evaluated once, when the def statement
\* runs: every pipeline constructed without a sink has that one generator.
CoroPipelineInit(default) ==
    /\ ~second.made
    /\ Resting
    /\ second' = [made |-> TRUE, transforms |-> <<>>, sink |-> NewSink,
                  shared |-> default]
    /\ UNCHANGED <<corovars, data, err, operations, owner, returned, runvars,
                   ctx, initial, labels, held>>

\* The caller turns from the pipeline in hand to the other one.
Switch ==
    /\ second.made
    /\ Resting
    /\ ~Unswept(recv)
    /\ garbage = <<>>
    /\ transforms' = second.transforms
    /\ sink' = IF second.shared THEN sink ELSE second.sink
    /\ second' = [second EXCEPT !.transforms = transforms,
                                !.sink = IF second.shared THEN @ ELSE sink]
    /\ pc' = "idle"
    /\ recv' = <<>>
    /\ head' = TheSink
    /\ pos' = 0
    /\ err' = "none"
    /\ mark' = [queue |-> Len(sink'.queue), closes |-> Len(sink'.closes),
                chain |-> <<>>, ok |-> FALSE, out |-> <<>>]
    /\ UNCHANGED <<data, gc, calls, garbage, operations, owner, returned,
                   runvars, ctx, initial, labels, held>>

\* The sink of the pipeline that is not in hand.
SecondSink == IF second.shared THEN sink ELSE second.sink

InitTwo ==
    /\ CoroIdle
    /\ PullIdle
    /\ data \in SeqsUpTo({Num(1), Num(2)}, MaxPullLen)

\* Specification of two pipeline objects assembled and executed in turn.
NextTwo ==
    \/ \E default \in BOOLEAN : CoroPipelineInit(default)
    \/ Switch
    \/ \E other \in {MapStage("double"), SortStage("none", FALSE)} : Or(other)
    \/ Call
    \/ Send
    \/ Close
    \/ Unwind

SpecTwo == InitTwo /\ [][NextTwo]_vars

\* Specification: one pipeline object, assembled, called and
\* collected in any order the guards allow.
Next ==
    \/ \E other \in Stages \cup {NotAStage} : Or(other)
    \/ \E args \in SampleArgLists : PipeSample(args)
    \/ Call
    \/ Send
    \/ Close
    \/ Unwind
    \/ CollectLatest
    \/ CollectEarlier

Spec == Init /\ [][Next]_vars

\* ------------------------------------------------------------ observations
\* What the sink received, and who closed it, since the latest call began.
Output == SubSeq(sink.queue, mark.queue + 1, Len(sink.queue))
SinkCloses == SubSeq(sink.closes, mark.closes + 1, Len(sink.closes))

\* The classes of the stages of the chain.
Kinds == [i \in 1..Len(transforms) |-> transforms[i].kind]

\* A call is under way or over, and recv holds the receivers of transforms.
Called == pc \in {"feeding", "returned", "raised", "aborted"}

\* What the head receiver of the latest call was sent, and who closed it.
HeadSeen == IF head = TheSink THEN Output ELSE recv[head].seen
HeadCloses == IF head = TheSink THEN SinkCloses ELSE recv[head].closes

\* How many of the closes are by `kind` of the latest call.
Count(closes, kind) ==
    Cardinality({j \in 1..Len(closes) : closes[j] = By(kind, calls)})

\* The distinct keys of a stream of pairs, and the values of one key in
\* arrival order.
KeysOf(s) == {s[j].k : j \in 1..Len(s)}
ValuesOf(s, key) ==
    LET HasKey(x) == x.k = key
        sel == SelectSeq(s, HasKey)
    IN  [j \in 1..Len(sel) |-> sel[j].v]
FirstAt(s, key) == CHOOSE j \in 1..Len(s) : s[j].k = key /\ \A m \in 1..(j - 1) : s[m].k # key

\* ----------------------------------------------------------------- claims

\* C1: when execute returns every stage receiver has been closed and the
\* sink has been closed exactly once, for every chain and input.
C1_CloseReachesSink ==
    pc = "returned" =>
        /\ \A i \in 1..Len(recv) : ~recv[i].alive
        /\ Len(SinkCloses) = 1
        /\ ~sink.alive

\* The closes of the target of receiver i in the latest call.
TargetCloses(i) ==
    IF recv[i].target = TheSink THEN SinkCloses ELSE recv[recv[i].target].closes

\* C2: no close of the receiver downstream of a ReduceByKey stage is issued
\* by the stage's dispatcher or by one of its accumulators.
C2_NeverClosesDownstream ==
    Called =>
        \A i \in 1..Len(recv) :
            recv[i].stage.kind = "ReduceByKey" =>
                /\ Count(TargetCloses(i), "wrap") = 0
                /\ Count(TargetCloses(i), "ReduceByKey") = 0

\* C2 as amended: the accumulators never close the receiver downstream of
\* their ReduceByKey stage; the dispatcher closes it, at most once, and only
\* as the last step of its shutdown, with every accumulator closed and the
\* partition map empty, never while it is processing input.
C2_OnlyDispatcherCloses ==
    Called =>
        \A i \in 1..Len(recv) :
            recv[i].stage.kind = "ReduceByKey" =>
                /\ Count(TargetCloses(i), "wrap") = 0
                /\ Count(TargetCloses(i), "ReduceByKey") <= 1
                /\ Count(TargetCloses(i), "ReduceByKey") = 1 =>
                      /\ ~recv[i].alive
                      /\ recv[i].keymap = <<>>
                      /\ Len(recv[i].shut) = Cardinality(KeysOf(recv[i].seen))
                /\ recv[i].alive => Count(TargetCloses(i), "ReduceByKey") = 0

\* A ReduceByKey stage with two keys has shut down and closed the sink.
C2_Witness ==
    /\ pc = "returned"
    /\ Kinds = <<"ReduceByKey">>
    /\ Len(recv[1].shut) = 2
    /\ SinkCloses = <<By("ReduceByKey", calls)>>
    /\ Len(Output) = 2

\* C3: at shutdown ReduceByKey closes its accumulators in first-seen key
\* order, so the (key, result) items reach the downstream receiver ordered by
\* the first occurrence of each key in the input.
C3_FirstSeenOrder ==
    (pc = "returned" /\ Kinds = <<"ReduceByKey">>) =>
        \A j, m \in 1..Len(Output) :
            j < m => FirstAt(data, Output[j].k) < FirstAt(data, Output[m].k)

\* The left fold acc := combine(key, acc, v) over the values after the first.
RECURSIVE FoldLeft(_, _, _)
FoldLeft(f, key, vals) ==
    IF Len(vals) = 1 THEN vals[1]
    ELSE CallReducer(f, key, FoldLeft(f, key, SubSeq(vals, 1, Len(vals) - 1)),
                     vals[Len(vals)])

\* C4: through a chain whose only stage is ReduceByKey(combine) the sink
\* receives exactly one item per distinct key and no key twice, and the item
\* of key k is (k, r) with r the first value of k folded from the left with
\* the later values of k in arrival order.
C4_OneFoldPerKey ==
    (pc = "returned" /\ Kinds = <<"ReduceByKey">>) =>
        /\ Len(Output) = Cardinality(KeysOf(data))
        /\ \A j, m \in 1..Len(Output) : j # m => Output[j].k # Output[m].k
        /\ \A j \in 1..Len(Output) :
              /\ Output[j].tag = "pair"
              /\ Output[j].k \in KeysOf(data)
              /\ Output[j].v = FoldLeft(transforms[1].func, Output[j].k,
                                        ValuesOf(data, Output[j].k))

\* Three pairs over two keys went through ReduceByKey: one key was folded.
C4_Witness ==
    /\ pc = "returned"
    /\ Kinds = <<"ReduceByKey">>
    /\ Len(data) = 3
    /\ Cardinality(KeysOf(data)) = 2
    /\ Len(Output) = 2

IsPrefix(a, b) == Len(a) <= Len(b) /\ a = SubSeq(b, 1, Len(a))

\* C5: execute pushes the items of the input into the head receiver in input
\* order, each once; it closes the head once, only after the input is
\* exhausted, and pushes nothing into the head after that close.
C5_FeedThenCloseOnce ==
    Called =>
        /\ IsPrefix(HeadSeen, data)
        /\ Len(HeadSeen) <= pos
        /\ Count(HeadCloses, "execute") <= 1
        /\ Count(HeadCloses, "execute") = 1 => (pos = Len(data) /\ HeadSeen = data)
        /\ pc = "returned" => (HeadSeen = data /\ Count(HeadCloses, "execute") = 1)
        /\ head # TheSink => recv[head].strays = 0

\* A call fed three items to a stage receiver, closed it and returned.
C5_Witness ==
    /\ pc = "returned"
    /\ head # TheSink
    /\ Len(data) = 3
    /\ HeadSeen = data
    /\ Count(HeadCloses, "execute") = 1

Permutations(n) ==
    {p \in [1..n -> 1..n] : \A j, m \in 1..n : p[j] = p[m] => j = m}

\* out is s in the order sorted(s, key=key, reverse=reverse) gives: a
\* rearrangement of s, ascending (descending if reverse) by `<`, items that
\* compare equal in the order they have in s.
IsSortedOf(out, s, key, reverse) ==
    /\ Len(out) = Len(s)
    /\ \E p \in Permutations(Len(s)) :
          /\ \A j \in 1..Len(s) : out[j] = s[p[j]]
          /\ \A j, m \in 1..Len(s) :
                j < m =>
                    /\ IF reverse THEN ~Less(key, out[j], out[m])
                       ELSE ~Less(key, out[m], out[j])
                    /\ (~Less(key, out[j], out[m]) /\ ~Less(key, out[m], out[j]))
                       => p[j] < p[m]

\* C6: through a chain whose only stage is Sort(key, reverse) the sink
\* receives nothing while input is being pushed; when execute returns it has
\* received exactly sorted(S, key, reverse), and Sort has closed it.
C6_SortBuffersThenDelivers ==
    (Called /\ Kinds = <<"Sort">>) =>
        /\ pc = "feeding" => (Output = <<>> /\ SinkCloses = <<>>)
        /\ pc = "returned" =>
              /\ IsSortedOf(Output, data, transforms[1].func, transforms[1].reverse)
              /\ SinkCloses = <<By("Sort", calls)>>

\* Sort(key=..., reverse=True) delivered three items in another order than
\* they came in.
C6_Witness ==
    /\ pc = "returned"
    /\ Kinds = <<"Sort">>
    /\ transforms[1].reverse
    /\ Len(data) = 3
    /\ Len(Output) = 3
    /\ Output # data

\* The pure equivalents: map, chain.from_iterable(map), filter, filterfalse.
RECURSIVE Flatten(_)
Flatten(ss) == IF ss = <<>> THEN <<>> ELSE Head(ss) \o Flatten(Tail(ss))

IsTruthy(x) == Truthy(x)
IsFalsy(x) == ~Truthy(x)

PureStage(stage, s) ==
    CASE stage.kind = "Map" -> [j \in 1..Len(s) |-> CallFunc(stage.func, s[j]).val]
      [] stage.kind = "FlatMap" ->
            Flatten([j \in 1..Len(s) |-> CallFlat(stage.func, s[j]).val])
      [] stage.kind = "Filter" -> SelectSeq(s, IsTruthy)
      [] stage.kind = "FilterFalse" -> SelectSeq(s, IsFalsy)

RECURSIVE Pure(_, _)
Pure(ts, s) == IF ts = <<>> THEN s ELSE Pure(Tail(ts), PureStage(Head(ts), s))

Stateless == {"Map", "FlatMap", "Filter", "FilterFalse"}

\* C7: for a chain of Map, FlatMap, Filter and FilterFalse stages only, the
\* sequence the sink collects is the composition of the pure equivalents
\* applied to the input in stage declaration order, item order preserved.
C7_StatelessAsPure ==
    (pc = "returned" /\ \A i \in 1..Len(transforms) : Kinds[i] \in Stateless) =>
        Output = Pure(transforms, data)

\* [Filter(truthy), Map(double)] over three items of which one is dropped.
C7_Witness ==
    /\ pc = "returned"
    /\ Kinds = <<"Filter", "Map">>
    /\ Len(data) = 3
    /\ Len(Output) = 2
    /\ \E j \in 1..3 : ~Truthy(data[j])

\* The items of s whose zero-based index is in range(start, stop, step).
InRange(j, start, stop, step) ==
    j >= start /\ j < stop /\ (j - start) % step = 0

RECURSIVE SliceOf(_, _, _, _)
SliceOf(s, start, stop, step) ==
    IF s = <<>> THEN <<>>
    ELSE SliceOf(SubSeq(s, 1, Len(s) - 1), start, stop, step)
         \o (IF InRange(Len(s) - 1, start, stop, step) THEN <<s[Len(s)]>> ELSE <<>>)

\* C8: Sample(start, stop, step) forwards exactly the items whose zero-based
\* index is in range(start, stop, step), in order.
C8_SampleSelectsRange ==
    (pc = "returned" /\ Kinds = <<"Sample">>) =>
        Output = SliceOf(data, transforms[1].start, transforms[1].stop,
                         transforms[1].step)

\* C9: a second execute of the same chain with the same input completes
\* without error and delivers the same items to the sink as the first.
C9_RerunSame ==
    (calls >= 2 /\ Called /\ mark.ok /\ mark.chain = transforms) =>
        /\ pc \notin {"raised", "aborted"}
        /\ pc = "returned" => Output = mark.out

\* C10: no push is ever made into a receiver that has already been closed.
C10_NoPushAfterClose ==
    /\ sink.strays = 0
    /\ \A i \in 1..Len(recv) : recv[i].strays = 0

\* The distinct keys of a sequence of pairs, in first-seen order.
RECURSIVE DistinctKeys(_)
DistinctKeys(s) ==
    IF s = <<>> THEN <<>>
    ELSE LET before == DistinctKeys(SubSeq(s, 1, Len(s) - 1))
             key == s[Len(s)].k
         IN  IF \E j \in 1..Len(before) : before[j] = key THEN before
             ELSE Append(before, key)

IsDispatcher(i) == recv[i].stage.kind = "ReduceByKey"

\* C11: while a ReduceByKey dispatcher is processing input its partition map
\* holds exactly one accumulator per distinct key seen so far, none removed;
\* when execute returns normally the map is empty and every accumulator has
\* been closed.
C11_OneAccumulatorPerKey ==
    Called =>
        \A i \in 1..Len(recv) :
            IsDispatcher(i) =>
                /\ recv[i].alive =>
                      /\ [j \in 1..Len(recv[i].keymap) |-> recv[i].keymap[j].key]
                            = DistinctKeys(recv[i].seen)
                      /\ \A j \in 1..Len(recv[i].keymap) : recv[i].keymap[j].alive
                      /\ recv[i].shut = <<>>
                /\ pc = "returned" =>
                      /\ recv[i].keymap = <<>>
                      /\ Len(recv[i].shut) = Len(DistinctKeys(recv[i].seen))
                      /\ \A j \in 1..Len(recv[i].shut) :
                            \E m \in 1..Len(recv[i].seen) :
                                recv[i].seen[m].k = recv[i].shut[j]

\* The close that execute issued to the head, a ReduceByKey dispatcher,
\* raised.
ShutdownRaised ==
    /\ pc = "raised"
    /\ head # TheSink
    /\ IsDispatcher(head)
    /\ Count(HeadCloses, "execute") = 1

\* C12: if closing one accumulator fails during ReduceByKey shutdown, the
\* stage still closes every remaining accumulator before the exception
\* reaches the caller of execute.
C12_ShutdownClosesTheRest ==
    ShutdownRaised =>
        /\ recv[head].keymap = <<>>
        /\ Len(recv[head].shut) = Len(DistinctKeys(recv[head].seen))

\* Whether pushing x into the chain ts makes a stage function raise: x is
\* followed through the stages that call a function on it while input is
\* being pushed.
RECURSIVE FuncRaises(_, _)
FuncRaisesOnAny(ts, ys) == \E j \in 1..Len(ys) : FuncRaises(ts, ys[j])
FuncRaises(ts, x) ==
    IF ts = <<>> THEN FALSE
    ELSE CASE Head(ts).kind = "Map" ->
                \/ CallFunc(Head(ts).func, x).exc # "none"
                \/ FuncRaises(Tail(ts), CallFunc(Head(ts).func, x).val)
           [] Head(ts).kind = "FlatMap" ->
                \/ CallFlat(Head(ts).func, x).exc # "none"
                \/ FuncRaisesOnAny(Tail(ts), CallFlat(Head(ts).func, x).val)
           [] Head(ts).kind = "Filter" -> Truthy(x) /\ FuncRaises(Tail(ts), x)
           [] Head(ts).kind = "FilterFalse" -> ~Truthy(x) /\ FuncRaises(Tail(ts), x)
           [] OTHER -> FALSE

C13_Step ==
    /\ IsPrefix(sink.queue, sink.queue')
    /\ (pc = "feeding" /\ pos < Len(data) /\ pos' = pos + 1
            /\ FuncRaises(transforms, data[pos + 1]))
       => (pc' = "raised" /\ err' # "none")
    /\ (pc \in {"raised", "aborted"} /\ calls' = calls)
       => /\ pos' = pos
          /\ head # TheSink => recv'[head].seen = recv[head].seen

\* C13: an exception raised by a stage function while an item is being
\* pushed leaves execute; no later item is pushed into the head; and what
\* the sink had received stays in its queue (the queue only ever grows).
C13_FailurePropagates == [][C13_Step]_vars

\* Map raised on the second of three items, after the first reached the sink.
C13_Witness ==
    /\ pc = "raised"
    /\ Kinds = <<"Map">>
    /\ err = "TypeError"
    /\ Len(data) = 3
    /\ pos = 2
    /\ Len(Output) = 1

\* The classes derived from CoroTransform.
TransformKinds ==
    {"CoroTransform", "Map", "FlatMap", "Filter", "FilterFalse", "Sort",
     "ReduceByKey", "Sample"}

C14_Step ==
    /\ transforms' # transforms =>
          /\ Len(transforms') = Len(transforms) + 1
          /\ SubSeq(transforms', 1, Len(transforms)) = transforms
          /\ err' = "none"
          /\ sink' = sink
    /\ (err # "NotACoroTransform" /\ err' = "NotACoroTransform") =>
          (transforms' = transforms /\ sink' = sink)
    /\ \A i \in 1..Len(transforms') : transforms'[i].kind \in TransformKinds

\* C14: append takes an object only if it is a CoroTransform instance, and
\* then adds it at the end of the stage list; for any other object it raises
\* NotACoroTransform and leaves the stage list and the sink as they were.
C14_AppendOnlyTransforms == [][C14_Step]_vars

\* An object that is no CoroTransform was refused by a chain of one stage.
C14_Witness ==
    /\ err = "NotACoroTransform"
    /\ Len(transforms) = 1
    /\ calls = 0

C15_Step == calls >= 1 => transforms' = transforms

\* C15: once the first execute of a chain object has begun, no later
\* operation on the object, append included, changes its stage list.
C15_FrozenOnceCalled == [][C15_Step]_vars

\* C16: a chain of one stage, of any stage type, given an empty input
\* completes without error and delivers nothing to the sink.
C16_EmptyInEmptyOut ==
    (Called /\ Len(transforms) = 1 /\ data = <<>>
        /\ transforms[1].kind # "CoroTransform"
        /\ ~(transforms[1].kind = "Sample" /\ transforms[1].step = 0)) =>
        /\ pc \in {"feeding", "returned"}
        /\ Output = <<>>
        /\ pc = "returned" => ~recv[1].alive

\* ReduceByKey alone returned from an empty input.
C16_Witness ==
    /\ pc = "returned"
    /\ Kinds = <<"ReduceByKey">>
    /\ data = <<>>
    /\ Output = <<>>
    /\ recv[1].shut = <<>>

\* C17: every receiver made through the priming decorator is at its first
\* yield before its first item arrives, so that the first push carries data
\* (each item execute has pushed is one the head's body received); an
\* exception of the initial advance reaches the caller of the factory, and
\* through CoroPipeline.__call__ the caller of execute, before any item is
\* pushed.
C17_PrimedBeforeFirstItem ==
    /\ sink.primed
    /\ Called =>
          /\ \A i \in 1..Len(recv) :
                /\ recv[i].seen # <<>> => recv[i].primed
                /\ \A j \in 1..Len(recv[i].keymap) : recv[i].keymap[j].primed
          /\ pc = "feeding" =>
                /\ \A i \in 1..Len(recv) : recv[i].primed
                /\ Len(HeadSeen) = pos
          /\ (\E i \in 1..Len(recv) : TransRaises(recv[i].stage) = "ValueError") =>
                /\ pc \in {"raised", "aborted"}
                /\ pos = 0
                /\ Output = <<>>
                /\ pc = "raised" => err \in {"ValueError", "NotImplementedError"}

\* The first item went into a primed ReduceByKey dispatcher and from it into
\* a primed accumulator, which holds its value.
C17_Witness ==
    /\ pc = "feeding"
    /\ pos = 1
    /\ Kinds = <<"ReduceByKey">>
    /\ recv[1].seen = <<data[1]>>
    /\ Len(recv[1].keymap) = 1
    /\ recv[1].keymap[1].fed = 1
    /\ recv[1].keymap[1].a = data[1].v

\* range()'s reading of one, two or three arguments.
RangeStart(args) == IF Len(args) = 1 THEN 0 ELSE args[1]
RangeStop(args) == IF Len(args) = 1 THEN args[1] ELSE args[2]
RangeStep(args) == IF Len(args) = 3 THEN args[3] ELSE 1

C19_Step ==
    \A args \in SampleArgLists :
        PipeSample(args) =>
            IF Len(args) \in {1, 2, 3}
            THEN /\ transforms' =
                        Append(transforms,
                               [kind |-> "Sample", func |-> "", reverse |-> FALSE,
                                start |-> RangeStart(args),
                                stop |-> RangeStop(args),
                                step |-> RangeStep(args)])
                 /\ err' = "none"
            ELSE /\ transforms' = transforms
                 /\ err' = "TypeError"

\* C19: Sample takes one, two or three positional arguments with the meaning
\* range() gives them; with any other number, none included, the constructor
\* raises TypeError and no stage comes of it.
C19_SampleArguments == [][C19_Step]_vars

\* Sample(1, 5) was made and appended, then a Sample of another argument
\* count refused.
C19_Witness ==
    /\ err = "TypeError"
    /\ calls = 0
    /\ Len(transforms) = 1
    /\ transforms[1].kind = "Sample"
    /\ transforms[1].start = 1
    /\ transforms[1].stop = 5
    /\ transforms[1].step = 1


\* C18: invoking a bare base stage directly (CoroTransform()(target),
\* Operation()(stream), Transform()(stream)) raises NotImplementedError and
\* returns nothing: no receiver and no output comes out of the call, whatever
\* the argument is.
C18_Step ==
    \A kind \in BareKinds :
        Invoke(kind) => /\ err' = "NotImplementedError"
                        /\ ~returned'.made
                        /\ returned'.items = <<>>
                        /\ returned'.of = kind

C18_BareStageRaises == [][C18_Step]_vars

\* A bare CoroTransform was invoked with a non-empty argument: the call raised
\* and returned nothing.
C18_Witness ==
    /\ returned.of = "CoroTransform"
    /\ data # <<>>
    /\ err = "NotImplementedError"
    /\ ~returned.made

\* C20: in the pull variant, Pipeline.__or__ / __ior__ given an object that is
\* neither an Operation nor a Pipeline raises NotAnOperation and leaves the
\* operations tuple (and every owner) unchanged; given a valid one it appends
\* it at the end, keeps the earlier operations in order, leaves the other
\* pipeline's tuple alone and sets the operation's owning pipeline to this
\* pipeline.
C20_Step ==
    \A p \in Pipes, other \in Piped :
        PipelineOr(p, other) =>
            IF other \in {"mapper", "bare", "sub"}
            THEN /\ Len(operations'[p]) = Len(operations[p]) + 1
                 /\ \A i \in 1..Len(operations[p]) :
                        operations'[p][i] = operations[p][i]
                 /\ operations'[p][Len(operations'[p])] = other
                 /\ \A q \in Pipes \ {p} : operations'[q] = operations[q]
                 /\ owner'[other] = p
                 /\ \A o \in Piped \ {other} : owner'[o] = owner[o]
                 /\ err' # "NotAnOperation"
            ELSE /\ err' = "NotAnOperation"
                 /\ operations' = operations
                 /\ owner' = owner

C20_PipelineOrAppends == [][C20_Step]_vars

\* A pipeline holds two different operations it owns, in the order they were
\* piped in, and the latest pipe into it was refused.
C20_Witness ==
    /\ operations["main"] = <<"mapper", "bare">>
    /\ owner["mapper"] = "main"
    /\ owner["bare"] = "main"
    /\ err = "NotAnOperation"


\* The Op instances, which read a pool, and whether the operations of a
\* pipeline hold none of them and no pipeline.
PoolReaders == {"threaded", "processed"}
ReadsNoPool(p) ==
    \A j \in 1..Len(operations[p]) : operations[p][j] = "mapper"

\* C21: in the pull variant NoPool is raised lazily.  A call of a pipeline
\* stores the pools it was given, None included, and does not fail by itself:
\* with no operation that reads a pool it raises nothing, whatever pools it
\* was given.  NoPool comes out of a call only if an Op is among the
\* operations, and a pipeline whose first operation is an Op it owns raises
\* NoPool exactly when the call supplied no pool of the kind the Op reads.  A
\* read of pipeline.thread_pool (or process_pool) at any other time raises
\* NoPool exactly when the most recent call of that pipeline supplied no
\* such pool, or there was no call.
C21_Step ==
    /\ \A p \in Pipes, process_pool \in PoolHandles, thread_pool \in PoolHandles :
          PipelineCall(p, process_pool, thread_pool) =>
              LET given == [process |-> process_pool, thread |-> thread_pool]
              IN  /\ (\A j \in 1..Len(operations[p]) : operations[p][j] # p)
                         => pools'[p] = given
                  /\ ReadsNoPool(p) => err' = "none" /\ result'.made
                  /\ err' = "NoPool" =>
                         \E q \in Pipes : \E j \in 1..Len(operations[q]) :
                             operations[q][j] \in PoolReaders
                  /\ \A o \in PoolReaders :
                         (operations[p] # <<>> /\ operations[p][1] = o
                          /\ owner[o] = p)
                             => (err' = "NoPool" <=> given[PoolOf(o)] = "none")
    /\ \A o \in PoolReaders, which \in {"thread", "process"} :
          ReadPool(o, which) =>
              (err' = "NoPool" <=> pools[owner[o]][which] # "pool")

C22_Step ==
    /\ \A how \in {"normal", "exception"} :
          Leave(how) => /\ ctx'.closed = ctx.closed + 1
                        /\ how = "exception" => err' = err /\ err' # "none"
    /\ ctx'.depth >= ctx.depth => ctx'.closed = ctx.closed
    /\ ctx'.closed + ctx'.depth = ctx'.entered

C22_CloseOnExitOnce == [][C22_Step]_vars

\* Two nested with-blocks were both ended by the NotImplementedError of a
\* call made in the inner one.
C22_Witness ==
    /\ ctx = [depth |-> 0, entered |-> 2, closed |-> 2]
    /\ err = "NotImplementedError"


\* What the operations do to a stream, stated on its own: map(keyed) gives
\* (x % 2, x) for the ints up to the first item that is no int, where it
\* raises TypeError; reduce_by_key gives, for a stream of pairs that ends
\* without an exception, one pair per distinct key in first-seen order with
\* the left fold of 2 * a + b over the key's values.
KeyedPrefix(s) ==
    LET ints == {n \in 0..Len(s.items) : \A j \in 1..n : s.items[j].tag = "int"}
        n == CHOOSE n \in ints : \A m \in ints : m <= n
    IN  Lazy([j \in 1..n |-> Pair(s.items[j].v % 2, s.items[j].v)],
             IF n < Len(s.items) THEN "TypeError" ELSE s.exc)

RECURSIVE Fold2(_)
Fold2(vals) ==
    IF Len(vals) = 1 THEN vals[1]
    ELSE 2 * Fold2(SubSeq(vals, 1, Len(vals) - 1)) + vals[Len(vals)]

FoldedByKey(s) ==
    IF \E j \in 1..Len(s.items) : s.items[j].tag # "pair" THEN Lazy(<<>>, "TypeError")
    ELSE IF s.exc # "none" THEN Lazy(<<>>, s.exc)
    ELSE LET keys == KeysOf(s.items)
             Rank(key) == Cardinality({k \in keys : FirstAt(s.items, k) <= FirstAt(s.items, key)})
         IN  Lazy([n \in 1..Cardinality(keys) |->
                      LET key == CHOOSE k \in keys : Rank(k) = n
                      IN  Pair(key, Fold2(ValuesOf(s.items, key)))],
                  "none")

\* The operations of a pipeline with a pipeline among them replaced by that
\* pipeline's own operations, at its position.
RECURSIVE Inline(_)
Inline(ops) ==
    IF ops = <<>> THEN <<>>
    ELSE (IF Head(ops) \in Pipes THEN operations[Head(ops)] ELSE <<Head(ops)>>)
         \o Inline(Tail(ops))

\* The sequential composition of operations, the first applied first.
RECURSIVE Composed(_, _)
Composed(ops, s) ==
    IF ops = <<>> THEN s
    ELSE Composed(Tail(ops),
                  IF Head(ops) = "mapper" THEN KeyedPrefix(s) ELSE FoldedByKey(s))

\* A pipeline that is not among its own operations.
Acyclic(p) == \A j \in 1..Len(operations[p]) : operations[p][j] # p

\* C23: in the pull variant a call applies the operations in the order they
\* were appended, and a pipeline among the operations acts as the sequential
\* composition of its own operations at that position: where no pipeline is
\* an operation of itself the call raises nothing and returns what composing
\* the operations, sub's own in the place of sub, gives of the data, and for
\* a pipeline whose last operation is sub that is sub applied to what the
\* operations before it give.
C23_Step ==
    \A p \in Pipes :
        (PipelineCall(p, "none", "none") /\ Acyclic("sub")) =>
            /\ err' = "none"
            /\ result'.made
            /\ Lazy(result'.items, result'.exc)
                   = Composed(Inline(operations[p]), Lazy(data, "none"))
            /\ (p = "main" /\ operations[p] # <<>>
                /\ operations[p][Len(operations[p])] = "sub")
                   => Lazy(result'.items, result'.exc)
                          = PipelineRun("sub",
                                        Composed(Inline(SubSeq(operations[p], 1,
                                                               Len(operations[p]) - 1)),
                                                 Lazy(data, "none")),
                                        "none", "none", pools, 0).val

C23_OperationsInOrder == [][C23_Step]_vars

\* main, a map followed by the pipeline sub, which holds a reduce_by_key, was
\* called with [1, 1] and returned the one pair (1, 3).
C23_Witness ==
    /\ result.of = "main"
    /\ operations["main"] = <<"mapper", "sub">>
    /\ operations["sub"] = <<"reducer">>
    /\ data = <<Num(1), Num(1)>>
    /\ result.made
    /\ result.items = <<Pair(1, 3)>>
    /\ result.exc = "none"


\* The items of a sequence, as a set.
ItemsOf(q) == {q[j] : j \in 1..Len(q)}

\* C24: the push ReduceByKey and the pull partition-then-reduce agree as
\* mappings from key to result: when execute returns from a chain made of a
\* ReduceByKey(lambda key, a, b: f(a, b)) alone, the (key, result) items the
\* sink received are, as a set, those the pull reduce_by_key(f) gives of the
\* same stream, one per distinct key.
C24_PushPullSameMapping ==
    (pc = "returned" /\ transforms = <<ReduceByKeyStage("flat")>>) =>
        /\ reduce_by_key("horner", Lazy(data, "none")).exc = "none"
        /\ ItemsOf(Output) = ItemsOf(reduce_by_key("horner", Lazy(data, "none")).items)
        /\ Len(Output) = Cardinality(KeysOf(data))
        /\ Len(reduce_by_key("horner", Lazy(data, "none")).items)
               = Cardinality(KeysOf(data))

\* The chain of one ReduceByKey returned from a stream with three values of
\* one key, folded to 2 * (2 * 1 + 2) + 1.
C24_Witness ==
    /\ pc = "returned"
    /\ transforms = <<ReduceByKeyStage("flat")>>
    /\ data = <<Pair(0, 1), Pair(0, 2), Pair(0, 1)>>
    /\ Output = <<Pair(0, 9)>>


\* What a reducer makes of the values of one key, in a list of its own: the
\* elements it puts into the outer list and into the inner list.
C25_Own(items, key, reducer) ==
    LET HasKey(x) == x.k = key
        sel == SelectSeq(items, HasKey)
    IN  IF reducer = "iadd"
        THEN [top |-> [j \in 1..(2 * Len(sel)) |->
                          IF j % 2 = 1 THEN sel[(j + 1) \div 2].k
                          ELSE sel[j \div 2].v],
              inner |-> <<>>]
        ELSE [top |-> <<>>, inner |-> [j \in 1..Len(sel) |-> sel[j].v]]

\* The run left the caller's initial as it was, and gave one value per key:
\* the reducer folded over a copy of initial and that key's values only.
C25_FromOwnCopy(reducer) ==
    /\ initial' = initial
    /\ err' = "none" =>
          /\ Len(result'.items) = Cardinality(KeysOf(data))
          /\ \A key \in KeysOf(data) :
                 \E j \in 1..Len(result'.items) :
                     result'.items[j]
                         = [key |-> key,
                            top |-> initial.top \o C25_Own(data, key, reducer).top,
                            inner |-> initial.inner
                                          \o C25_Own(data, key, reducer).inner]

C25_OriginalStep ==
    \A reducer \in SerialReducers, copy_initial \in BOOLEAN,
       deepcopy_initial \in BOOLEAN :
        (/\ copy_initial # deepcopy_initial
         /\ SerialReduce(reducer, copy_initial, deepcopy_initial, TRUE))
            => C25_FromOwnCopy(reducer)

\* C25 as stated: with an initial value and copy_initial or deepcopy_initial
\* set, whatever the reducer, each key's value is the reducer folded over
\* its own copy of initial and that key's values only, and the caller's
\* initial is unchanged.  Violated: copy.copy shares the elements of initial,
\* so a reducer that changes a list inside initial changes it for every key
\* and for the caller.
C25_Original == [][C25_OriginalStep]_vars

C25_Step ==
    \A reducer \in SerialReducers, copy_initial \in BOOLEAN,
       deepcopy_initial \in BOOLEAN :
        (/\ copy_initial # deepcopy_initial
         /\ deepcopy_initial \/ reducer = "iadd"
         /\ SerialReduce(reducer, copy_initial, deepcopy_initial, TRUE))
            => C25_FromOwnCopy(reducer)

\* C25: for the serial reduce_by_key with an initial value, and with
\* deepcopy_initial set, or with copy_initial set and a reducer that changes
\* its first argument at the top level only, every key's reduction starts
\* from its own copy of initial: the value of a key is the reducer folded
\* over copy(initial) and that key's values only, whatever the reducer did
\* for another key, and the caller's initial object is unchanged afterwards.
C25_OwnCopyPerKey == [][C25_Step]_vars

\* A reducer that appends to the list inside initial ran with
\* deepcopy_initial on two keys: each key has a list of its own value and
\* the caller's initial is still [[]].
C25_Witness ==
    /\ data = <<Pair(0, 1), Pair(0, 2), Pair(1, 1)>>
    /\ result.of = "reduce_by_key"
    /\ result.items = <<[key |-> 1, top |-> <<>>, inner |-> <<1>>],
                        [key |-> 0, top |-> <<>>, inner |-> <<1, 2>>]>>
    /\ initial = NewInitial


C26_Step ==
    \A o \in Labelled :
        /\ description(o)' # description(o) => \E other \in Labels : RRShift(other, o)
        /\ \A other \in Labels :
               RRShift(other, o) =>
                   /\ description(o)' = other
                   /\ labels'.gave = o
                   /\ \A q \in Labelled \ {o} : description(q)' = description(q)

\* C26: a stage's description equals its repr until a label is applied;
\* label >> stage makes the description of that stage equal the label,
\* whatever label it had before, gives back the same stage object and
\* leaves the description of every other stage alone; nothing else changes
\* a description.
C26_DescriptionIsLabelOrRepr ==
    /\ \A o \in Labelled : description(o) = Repr(o)
    /\ [][C26_Step]_vars

\* The Map was labelled last, the Transform before it, the Operation never.
C26_Witness ==
    /\ labels.gave = "Map"
    /\ description("Map") = "second"
    /\ description("Transform") = "first"
    /\ description("Operation") = Repr("Operation")


\* What the receiver at t, or the sink, was sent in the latest call.
SeenBy(t) == IF t = TheSink THEN Output ELSE recv[t].seen

\* C27: while an execute that built its chain is feeding, and when it has
\* returned, the receivers stand in declaration order: receiver i is of the
\* i-th declared stage and of this call, the last is bound to the sink and
\* each earlier one to the receiver of the stage declared after it, and the
\* head is the receiver of the first declared stage (the sink itself for an
\* empty chain).  The head was sent the items fed so far in stream order,
\* and what the target of a Map, FlatMap, Filter or FilterFalse receiver
\* was sent is that stage applied to what the receiver itself was sent: an
\* item reaches stage i + 1 only through stage i.
C27_BoundTailToHead ==
    pc \in {"feeding", "returned"} =>
        /\ Len(recv) = Len(transforms)
        /\ head = IF transforms = <<>> THEN TheSink ELSE 1
        /\ SeenBy(head) = SubSeq(data, 1, pos)
        /\ \A i \in 1..Len(recv) :
               /\ recv[i].stage = transforms[i]
               /\ recv[i].call = calls
               /\ recv[i].target = IF i = Len(recv) THEN TheSink ELSE i + 1
               /\ Kinds[i] \in Stateless =>
                      SeenBy(recv[i].target)
                          = PureStage(transforms[i], recv[i].seen)

\* [Map(double), Map(keyed)] returned: the item was doubled first and keyed
\* second; in the other order keyed's pair would have made double raise.
C27_Witness ==
    /\ pc = "returned"
    /\ transforms = <<MapStage("double"), MapStage("keyed")>>
    /\ data = <<Num(1)>>
    /\ recv[2].seen = <<Num(2)>>
    /\ Output = <<Pair(0, 2)>>


\* The receiver at i, a Sort or a ReduceByKey, has passed on all it held:
\* its target was sent the sorted buffer, or one item per key.
Flushed(i) ==
    /\ Kinds[i] = "Sort" =>
          IsSortedOf(SeenBy(recv[i].target), recv[i].seen,
                     transforms[i].func, transforms[i].reverse)
    /\ Kinds[i] = "ReduceByKey" =>
          Len(SeenBy(recv[i].target)) = Cardinality(KeysOf(recv[i].seen))

\* C28: wherever a Sort or ReduceByKey stage sits in a chain, also behind a
\* Map, FlatMap, Filter, FilterFalse or Sample stage, when execute has
\* returned the stage has flushed downstream every item it buffered or
\* accumulated during that execute.
C28_FlushedAtReturn ==
    pc = "returned" => \A i \in 1..Len(recv) : Flushed(i)


\* The receiver at i is of the latest call and holds what it was sent in
\* that call and nothing else: Sort's buffer is the items it was sent, and
\* ReduceByKey's map has one accumulator per key it was sent, holding the
\* fold of the values it was sent for that key.
OwnItemsOnly(i) ==
    /\ recv[i].call = calls
    /\ Kinds[i] = "Sort" => recv[i].out = recv[i].seen
    /\ Kinds[i] = "ReduceByKey" =>
          /\ [j \in 1..Len(recv[i].keymap) |-> recv[i].keymap[j].key]
                = DistinctKeys(recv[i].seen)
          /\ \A j \in 1..Len(recv[i].keymap) :
                /\ recv[i].keymap[j].fed
                      = Len(ValuesOf(recv[i].seen, recv[i].keymap[j].key))
                /\ recv[i].keymap[j].a
                      = FoldLeft(transforms[i].func, recv[i].keymap[j].key,
                                 ValuesOf(recv[i].seen, recv[i].keymap[j].key))

\* The receiver at i is as its stage makes it: nothing seen, buffered,
\* accumulated or closed.
Untouched(i) ==
    /\ recv[i].alive
    /\ recv[i].seen = <<>>
    /\ recv[i].out = <<>>
    /\ recv[i].keymap = <<>>
    /\ recv[i].shut = <<>>
    /\ recv[i].closes = <<>>
    /\ recv[i].idx = 0

\* C29: stage receivers are built fresh for every execute.  When an execute
\* starts feeding, the first or a later one, no receiver has seen, buffered
\* or accumulated anything; while it feeds, the head has been sent the items
\* of this call's input only, a Sort buffer holds exactly what that receiver
\* was sent in this call and a ReduceByKey map exactly the folds of what it
\* was sent in this call; and when it returns, what a Sort or ReduceByKey at
\* the head passed to the stage behind it is made of this call's input
\* alone.
C29_FreshPerExecute ==
    /\ pc = "feeding" =>
          /\ HeadSeen = SubSeq(data, 1, pos)
          /\ \A i \in 1..Len(recv) : OwnItemsOnly(i)
          /\ pos = 0 => \A i \in 1..Len(recv) : Untouched(i)
    /\ (pc = "returned" /\ Len(recv) = 2 /\ Kinds[1] = "Sort") =>
          IsSortedOf(recv[2].seen, data, transforms[1].func, transforms[1].reverse)
    /\ (pc = "returned" /\ Len(recv) = 2 /\ Kinds[1] = "ReduceByKey") =>
          /\ Len(recv[2].seen) = Cardinality(KeysOf(data))
          /\ \A j \in 1..Len(recv[2].seen) :
                recv[2].seen[j].v = FoldLeft(transforms[1].func, recv[2].seen[j].k,
                                             ValuesOf(data, recv[2].seen[j].k))

\* A second execute has fed two items to a fresh Sort receiver behind a
\* Map, while the Sort receiver of the first execute, never shut down,
\* still holds the buffer of that execute.
C29_Witness ==
    /\ calls = 2
    /\ pc = "feeding"
    /\ pos = 2
    /\ Kinds = <<"Map", "Sort">>
    /\ Len(recv[2].out) = 2
    /\ Len(garbage) = 1
    /\ garbage[1][2].alive
    /\ Len(garbage[1][2].out) = Len(data)


\* The dispatcher at i has not been closed, by execute, by the stage before
\* it or by the collector, and has not ended by an exception.
Active(i) == IsDispatcher(i) /\ recv[i].alive /\ recv[i].closes = <<>>

\* A push of an item into the chain leaves what the receiver behind a
\* dispatcher was sent as it is, if the dispatcher is active after it.
C30_Step ==
    Send =>
        \A i \in 1..Len(recv) :
            (Active(i))' => (SeenBy(recv[i].target))' = SeenBy(recv[i].target)

\* C30: a ReduceByKey stage forwards nothing downstream while it is active:
\* no push of an item into the chain that leaves its dispatcher alive and
\* not closed makes the dispatcher or an accumulator send anything to the
\* receiver behind the stage, however many items and keys the stage has
\* taken; and in the first execute of a pipeline, where nothing else can
\* send to that receiver, it has been sent nothing at all as long as the
\* dispatcher is active.
C30_SilentWhileActive ==
    /\ []((Called /\ calls = 1) =>
            \A i \in 1..Len(recv) : Active(i) => SeenBy(recv[i].target) = <<>>)
    /\ [][C30_Step]_vars

\* A dispatcher has taken three items of two keys and the sink has received
\* nothing.
C30_Witness ==
    /\ pc = "feeding"
    /\ pos = 3
    /\ Kinds = <<"ReduceByKey">>
    /\ Len(recv[1].keymap) = 2
    /\ recv[1].keymap[1].fed = 2
    /\ Output = <<>>


\* No two entries of a sequence are the same.
NoRepeat(q) == \A j, m \in 1..Len(q) : q[j] = q[m] => j = m

\* The receivers of one chain were each sent close() at most once, and no
\* accumulator of a dispatcher among them was closed twice.
ClosedOnce(chain) ==
    \A i \in 1..Len(chain) :
        /\ Len(chain[i].closes) <= 1
        /\ NoRepeat(chain[i].shut)

\* C31: in every chain and every execution the sink is closed at most once
\* by that execution (by its orchestrator, its stages or their finalizers),
\* and each stage receiver and each accumulator, of the latest execution and
\* of the earlier ones not yet collected, is closed at most once.
C31_ClosedAtMostOnce ==
    /\ \A c \in 1..MaxCalls :
          Cardinality({j \in 1..Len(sink.closes) : sink.closes[j].call = c}) <= 1
    /\ ClosedOnce(recv)
    /\ \A g \in 1..Len(garbage) : ClosedOnce(garbage[g])

\* A dispatcher closed by execute has closed its two accumulators and then
\* the Sort behind it, which has closed the sink: three issuers, and every
\* receiver closed once.
C31_Witness ==
    /\ pc = "returned"
    /\ Kinds = <<"ReduceByKey", "Sort">>
    /\ recv[1].closes = <<By("execute", calls)>>
    /\ Len(recv[1].shut) = 2
    /\ recv[2].closes = <<By("ReduceByKey", calls)>>
    /\ SinkCloses = <<By("Sort", calls)>>


\* C32: two distinct pipeline objects never share a sink unless the caller
\* passed the same sink to both: with a second pipeline constructed, with
\* the default sink or with a sink of its own, no push of an item into the
\* pipeline in hand and no shutdown of it changes the sink of the other
\* one, which neither receives an item nor is closed.
C32_Step == (second.made /\ (Send \/ Close)) => SecondSink' = SecondSink

C32_SinksApart == [][C32_Step]_vars


\* C33: a Sample stage never raises while processing: an execute of a chain
\* made of one Sample stage whose receiver could be built is never ended by
\* an exception, however long the input is.
C33_SampleNeverRaises ==
    (Called /\ Kinds = <<"Sample">> /\ BuildRaises(transforms) = "none") =>
        pc \notin {"raised", "aborted"}


\* The first execute of a pipeline was ended by an exception while it was
\* pushing items: its chain was built and it has issued no close.
AbortedDraining ==
    /\ calls = 1
    /\ pc \in {"raised", "aborted"}
    /\ BuildRaises(transforms) = "none"
    /\ Count(HeadCloses, "execute") = 0

\* C34: when a stage raises while execute is pushing items, execute issues
\* no close to the head, and Sort and ReduceByKey stages emit none of what
\* they buffered or accumulated: from the failure on the sink stays as it
\* was, holding the items delivered before the failure and not closed.
C34_Step == AbortedDraining => (sink' = sink /\ sink.alive)

C34_AbortEmitsNothing == [][C34_Step]_vars

\* C35: in the pull variant the pools given to a call of a pipeline stay
\* with that call until its output is consumed: whenever an operation of a
\* call, owned by the pipeline that was called, reads a pool while the
\* iterator that call returned is consumed, it finds the handle that call
\* was given, and gets NoPool exactly if that call was given none, whatever
\* calls of the same pipeline came in between.
C35_Step ==
    \A o \in Operands, which \in {"thread", "process"} :
        (Consume(o, which) /\ owner[o] = held.of) =>
            /\ pools[held.of][which] = held.given[which]
            /\ err' = PoolRead(held.given[which])

C35_PoolsStayWithCall == [][C35_Step]_vars

====
